---- MODULE Spec2Model ----
(***************************************************************************)
(* Model of the authenticated HTTP service client of                       *)
(* src/src/lib/api: the request pipeline of BaseApiFactory (interceptors,  *)
(* error classification, retry loop with exponential backoff).             *)
(*                                                                         *)
(* One logical call (get/post/put/patch/delete -> request) is followed     *)
(* from its start to its return or throw.  The transport is the            *)
(* environment: every attempt it answers with an outcome chosen from       *)
(* Outcomes.                                                               *)
(***************************************************************************)
EXTENDS Integers, Sequences, FiniteSets, TLC

----------------------------------------------------------------------------
(* Bounds of the model *)

\* configured retries range over 0..MaxRetries (and "not set")
MaxRetries == 2
\* configured retryDelay ranges over 0..MaxRetryDelay, 100 (and "not set")
MaxRetryDelay == 1
\* response payloads range over 0..MaxPayload, 0 standing for "no payload"
MaxPayload == 1

\* callers (asynchronous tasks) that use one PostsService at the same time
NumCallers == 2
\* the posts collection on the server goes through versions 0..MaxVersion
MaxVersion == 1
\* the clock is advanced at most MaxTicks times
MaxTicks == 3
\* at most MaxInstances service instances are ever constructed
MaxInstances == 3
\* configured numbers and header values range over 0..MaxCfgValue (and "not set")
MaxCfgValue == 1
\* distinct credentials (tokens, keys) a strategy is given or a supplier yields
MaxToken == 1
\* tokens the tokenGetter is followed to yield between two refresh() / clear()
MaxYielded == 2
\* distinct authentication strategy objects handed to one service
MaxStrategies == 2
\* times the remote service changes between answering and failing
MaxRemoteChanges == 2
\* longest request.postIds of a batchFetchPosts call
MaxBatch == 3
\* post ids a batch may ask for
MaxPostId == 2
\* user ids userExists is asked about
MaxUserId == 3

----------------------------------------------------------------------------
(* Program constants *)

\* PostsService.CACHE_DURATION = 5 * 60 * 1000 ms
CACHE_DURATION == 300000
\* `... || 10000` in mergeWithGlobalConfig: timeout used when none is configured
DefaultTimeout == 10000

\* `... || 3` in request(): retries used when none is configured
DefaultRetries == 3
\* `... || 1000` in request(): base delay used when none is configured
DefaultRetryDelay == 1000

\* an optional number that was not supplied (undefined)
Unset == -1

----------------------------------------------------------------------------
(* Transport outcomes of one attempt *)

\* the response statuses the transport may answer with
Success == 200
ErrorStatuses == {400, 401, 403, 404, 418, 422, 429, 500, 503}
\* request was sent, the connection failed before a response arrived
ConnReset == 0
\* request was sent, the per-attempt timeout expired before a response arrived
TimedOut == 1
\* the request never left: the auth strategy's token callback threw in applyAuth
AuthThrows == 2

NoResponseOutcomes == {ConnReset, TimedOut}
FailureOutcomes == ErrorStatuses \cup NoResponseOutcomes \cup {AuthThrows}
Outcomes == FailureOutcomes \cup {Success}

Payloads == 0..MaxPayload
NoPayload == 0

RetriesValues == {Unset} \cup (0..MaxRetries)
RetryDelayValues == {Unset, 100} \cup (0..MaxRetryDelay)

----------------------------------------------------------------------------
(* Error objects.  One record shape stands for every object that reaches   *)
(* handleError: the fields handleError reads (response, request) and the   *)
(* fields the error classes carry (name, status, data).  0 is "undefined". *)

MkError(name, status, data, msgStatus) ==
    [name |-> name, status |-> status, data |-> data, msgStatus |-> msgStatus,
     hasResponse |-> FALSE, respStatus |-> 0, respData |-> NoPayload,
     hasRequest |-> FALSE]

NoError == MkError("none", 0, NoPayload, 0)

\* the error object the transport (axios) rejects with for one outcome
AxiosError(outcome, data) ==
    IF outcome \in ErrorStatuses
    THEN [name |-> "AxiosError", status |-> 0, data |-> NoPayload,
          msgStatus |-> outcome,
          hasResponse |-> TRUE, respStatus |-> outcome, respData |-> data,
          hasRequest |-> TRUE]
    ELSE IF outcome \in NoResponseOutcomes
    THEN [name |-> "AxiosError", status |-> 0, data |-> NoPayload,
          msgStatus |-> 0,
          hasResponse |-> FALSE, respStatus |-> 0, respData |-> NoPayload,
          hasRequest |-> TRUE]
    ELSE \* the token callback's own Error: neither response nor request
         MkError("Error", 0, NoPayload, 0)

\* handleError with `case 422` left out: a 422 response falls through to the
\* default branch
handleErrorWithout422(error) ==
    IF error.hasResponse
    THEN LET status == error.respStatus
             data == error.respData
         IN CASE status = 400 -> MkError("BadRequestError", 400, data, status)
              [] status = 401 -> MkError("UnauthorizedError", 401, data, status)
              [] status = 403 -> MkError("ForbiddenError", 403, data, status)
              [] status = 404 -> MkError("NotFoundError", 404, data, status)
              [] status = 429 -> MkError("RateLimitError", 429, data, status)
              [] status = 500 -> MkError("InternalServerError", 500, data, status)
              [] OTHER -> MkError("ApiError", status, data, status)
    ELSE IF error.hasRequest
    THEN MkError("NetworkError", 0, NoPayload, 0)
    ELSE MkError("RequestError", 0, NoPayload, error.msgStatus)

\* BaseApiFactory.handleError, the value it returns
handleError(error) ==
    IF error.hasResponse
    THEN LET status == error.respStatus
             data == error.respData
         IN CASE status = 400 -> MkError("BadRequestError", 400, data, status)
              [] status = 401 -> MkError("UnauthorizedError", 401, data, status)
              [] status = 403 -> MkError("ForbiddenError", 403, data, status)
              [] status = 404 -> MkError("NotFoundError", 404, data, status)
              [] status = 422 -> MkError("ValidationError", 422, data, status)
              [] status = 429 -> MkError("RateLimitError", 429, data, status)
              [] status = 500 -> MkError("InternalServerError", 500, data, status)
              [] OTHER -> MkError("ApiError", status, data, status)
    ELSE IF error.hasRequest
    THEN MkError("NetworkError", 0, NoPayload, 0)
    ELSE MkError("RequestError", 0, NoPayload, error.msgStatus)

\* BaseApiFactory.shouldRetry
shouldRetry(error) ==
    IF ~error.hasResponse
    THEN TRUE
    ELSE error.respStatus >= 500 \/ error.respStatus = 429

\* JavaScript `a || b` on optional numbers: undefined and 0 are both falsy
Falsy(x) == x = Unset \/ x = 0
OrElse(a, b) == IF Falsy(a) THEN b ELSE a

\* request(): const retries = config?.retries || this.config.retries || 3
EffectiveRetries(perCall, service) ==
    OrElse(perCall, OrElse(service, DefaultRetries))

RECURSIVE Pow2(_)
Pow2(n) == IF n = 0 THEN 1 ELSE 2 * Pow2(n - 1)

\* request(): (this.config.retryDelay || 1000) * Math.pow(2, attempt)
BackoffDelay(retryDelay, attempt) ==
    OrElse(retryDelay, DefaultRetryDelay) * Pow2(attempt)

----------------------------------------------------------------------------
VARIABLES
    cfgRetries,     \* this.config.retries
    cfgRetryDelay,  \* this.config.retryDelay
    isHealthy,      \* this.isHealthy
    pc,             \* position of the logical call in request()
    callRetries,    \* config?.retries of the call
    retries,        \* request(): const retries
    attempt,        \* request(): loop counter
    lastOutcome,    \* outcome of the most recent attempt
    lastData,       \* payload the transport sent with it
    seen,           \* classes of the outcomes of the call's attempts so far
    requests,       \* axiosInstance.request invocations of this call
    calls,          \* transport calls of this call (requests that were sent)
    delays,         \* backoff delays waited by this call, in order
    intercepted,    \* error the response interceptor rejected with
    lastError,      \* request(): lastError
    result          \* payload returned to the caller

\* PostsService and its callers
VARIABLES
    now,            \* Date.now()
    ticks,          \* number of times the clock was advanced
    postsCache,     \* this.postsCache
    cacheTimestamp, \* this.cacheTimestamp
    serverData,     \* version of the posts collection held by the server
    cpc,            \* per caller: position in its PostsService call
    cresp,          \* per caller: what this.get / this.post / this.put settled with
    cret,           \* the last return or throw of a PostsService call
    fillTime,       \* time of the refresh that made the entry in force
    fillData,       \* data of the refresh that made the entry in force
    invalidatedBy   \* what emptied the cache since its last refresh

\* ApiClient (the service registry) and one getHealthStatus() call
VARIABLES
    services,         \* this.services: name -> instance (0: no entry)
    serviceFactories, \* this.serviceFactories: name -> a factory is registered
    nextId,           \* number of service instances constructed so far
    regRet,           \* what the last registry call returned
    lastGot,          \* per name: instance getService returned last since reset()
    lastKept,         \* per name: the same, since the name's entry was last replaced or dropped
    builtSinceReset,  \* per name: instances getService constructed since reset()
    builtSinceDrop,   \* per name: the same, since the name's entry was last dropped
    resetMark,        \* number of instances that existed at the last reset()
    hpc,              \* position of the getHealthStatus() call
    hcur,             \* name whose health probe it is awaiting
    hthrew,           \* names whose construction or probe threw in this call
    hsnap,            \* names its loop iterates: getRegisteredServices() at the call
    htodo,            \* names its loop has not visited yet
    hstatus           \* healthStatus: name -> entry

\* ApiClient.globalConfig and one mergeWithGlobalConfig() evaluation
VARIABLES
    globalConfig,     \* this.globalConfig
    svcConfig,        \* config given to getServiceWithConfig
    mergedConfig      \* what mergeWithGlobalConfig returned for it

\* one ServiceConfigBuilder
VARIABLES
    builderConfig,    \* this.config of the builder
    builderRet        \* what the last build() returned or threw

\* one AuthenticationStrategy and the callers of its applyAuth / isValid
VARIABLES
    authKind,         \* which strategy class it is
    cred,             \* the credential it holds (token, apiKey, ...; 0: none)
    hasGetter,        \* BearerTokenStrategy: a tokenGetter was given
    apc,              \* per caller: position in applyAuth / isValid
    ain,              \* per caller: the request config it passed to applyAuth
    areq,             \* per caller: that config as applyAuth has left it
    aret,             \* per caller: how its call ended
    rfpc,             \* position of the refresh() call
    yielded,          \* tokens getToken's tokenGetter calls yielded since the
                      \* last refresh() / clear()
    cleared           \* clear() was called, and neither refresh() nor a
                      \* setter since

\* concurrent logical calls of request() on one service instance, and one
\* getHealth() call on it
VARIABLES
    kpc,              \* per call: position in request()
    kretries,         \* per call: request(): const retries
    kattempt,         \* per call: request(): loop counter
    ksent,            \* per call: attempts it has started
    kinflight,        \* per call: its attempts that have not settled yet
    kwaited,          \* per call: backoff waits it has completed
    lastCompleted,    \* outcome of the attempt that settled last on the instance
    gpc,              \* position of the getHealth() call
    gret              \* what getHealth() returned last

\* one service instance's authentication strategy and its callers' view of it
VARIABLES
    authStrategy,       \* this.authStrategy
    configAuthStrategy, \* this.config.authStrategy
    installed,          \* strategy given to the last update call that carried one
    appliedBy,          \* strategy the request interceptor applied last
    reported,           \* what the last getConfig().authStrategy was
    stratOp             \* the operation that ran last

\* one PostsService whose getHealth() is polled, and the remote service
VARIABLES
    remote,           \* what the remote service does with a request now
    changes,          \* number of times it has changed
    pauth,            \* what the instance's authStrategy.isValid() gives
    ppc,              \* position of the PostsService.getHealth() call
    pret              \* what that call returned; "none" while it runs

\* one batchFetchPosts() call
VARIABLES
    bids,             \* request.postIds
    bresults,         \* results
    berrors,          \* errors: the ids whose message was pushed
    boks,             \* per id visited so far: getPostById returned
    bfetched,         \* ids getPostById was called with, in order
    bpc,              \* position of the call
    bret              \* the response it returned

\* one UsersService.userExists() call
VARIABLES
    uid,              \* the id asked about
    uoutcome,         \* outcome of getById's last attempt
    utext404,         \* the text the failure came with contains "404"
    uerr,             \* the error getById threw
    upc,              \* position of the call
    uret              \* how it ended: "true", "false" or "rethrown"

\* request()'s own state: everything of the pipeline but the health flag
pipeCallVars == <<cfgRetries, cfgRetryDelay, pc, callRetries, retries,
                  attempt, lastOutcome, lastData, seen, requests, calls, delays,
                  intercepted, lastError, result>>

cacheVars == <<now, ticks, postsCache, cacheTimestamp, serverData, cpc,
               cresp, cret, fillTime, fillData, invalidatedBy>>

regVars == <<services, serviceFactories, nextId, regRet, lastGot, lastKept,
             builtSinceReset, builtSinceDrop, resetMark, hpc, hcur, hthrew,
             hsnap, htodo, hstatus>>

confVars == <<globalConfig, svcConfig, mergedConfig>>

builderVars == <<builderConfig, builderRet>>

\* the builder, the auth strategy and the concurrent callers of request()
authVars == <<authKind, cred, hasGetter, apc, ain, areq, aret, rfpc, yielded,
              cleared>>

concVars == <<kpc, kretries, kattempt, ksent, kinflight, kwaited,
              lastCompleted, gpc, gret>>

stratVars == <<authStrategy, configAuthStrategy, installed, appliedBy,
               reported, stratOp>>

\* the groups of the service-level operations
probeVars == <<remote, changes, pauth, ppc, pret>>

batchVars == <<bids, bresults, berrors, boks, bfetched, bpc, bret>>

userVars == <<uid, uoutcome, utext404, uerr, upc, uret>>

lateVars == <<stratVars, probeVars, batchVars, userVars>>

extraVars == <<builderVars, authVars, concVars, lateVars>>

\* everything outside the request pipeline
nonPipeVars == <<cacheVars, regVars, confVars, extraVars>>

\* everything outside PostsService (the health flag is shared)
nonCacheVars == <<pipeCallVars, regVars, confVars, extraVars>>

\* everything outside the registry
nonRegVars == <<pipeCallVars, isHealthy, cacheVars, confVars, extraVars>>

\* everything outside the configuration merge
nonConfVars == <<pipeCallVars, isHealthy, cacheVars, regVars, extraVars>>

\* everything outside the builder
nonBuilderVars == <<pipeCallVars, isHealthy, cacheVars, regVars, confVars,
                    authVars, concVars, lateVars>>

\* everything outside the auth strategy
nonAuthVars == <<pipeCallVars, isHealthy, cacheVars, regVars, confVars,
                 builderVars, concVars, lateVars>>

\* everything outside the concurrent calls (the health flag is theirs)
nonConcVars == <<pipeCallVars, cacheVars, regVars, confVars, builderVars,
                 authVars, lateVars>>

\* everything outside the service's strategy fields
nonStratVars == <<pipeCallVars, isHealthy, cacheVars, regVars, confVars,
                  builderVars, authVars, concVars, probeVars, batchVars,
                  userVars>>

\* everything outside the polled service (the health flag is its own)
nonProbeVars == <<pipeCallVars, cacheVars, regVars, confVars, builderVars,
                  authVars, concVars, stratVars, batchVars, userVars>>

\* everything outside the batch call (its fetches set the health flag)
nonBatchVars == <<pipeCallVars, cacheVars, regVars, confVars,
                  builderVars, authVars, concVars, stratVars, probeVars,
                  userVars>>

\* everything outside the userExists call (its fetch sets the health flag)
nonUserVars == <<pipeCallVars, cacheVars, regVars, confVars, builderVars,
                 authVars, concVars, stratVars, probeVars, batchVars>>

vars == <<pipeCallVars, isHealthy, cacheVars, regVars, confVars, extraVars>>

\* class of an outcome, as the spec's retry policy distinguishes them
OutcomeClass(o) ==
    IF o = Success THEN "success"
    ELSE IF o = AuthThrows THEN "preparation"
    ELSE IF o \in NoResponseOutcomes THEN "noResponse"
    ELSE IF o >= 500 \/ o = 429 THEN "retryableStatus"
    ELSE "clientError"

----------------------------------------------------------------------------
(* PostsService: the whole-collection read cache *)

Callers == 1..NumCallers

\* this.postsCache = null
NullPosts == -1
\* "no such time": the cache was never refreshed
NoTime == -1
\* the clock at construction: Date.now() is far beyond CACHE_DURATION
StartTime == 2 * CACHE_DURATION
\* the clock is observed every half CACHE_DURATION: the age of a cache entry
\* takes the values 0, CACHE_DURATION/2, CACHE_DURATION, 3*CACHE_DURATION/2, ...
TickStep == CACHE_DURATION \div 2

NoResp == [ok |-> FALSE, data |-> NullPosts]
NoRet == [kind |-> "none", data |-> NullPosts]

\* clearCache() that leaves both fields as they are
clearCacheNoop == [postsCache |-> postsCache, cacheTimestamp |-> cacheTimestamp]

\* PostsService.clearCache: the two fields after it
clearCache == [postsCache |-> NullPosts, cacheTimestamp |-> 0]

\* updateCache() that forgets to take the time
updateCacheKeepsTimestamp(posts, t) ==
    [postsCache |-> posts, cacheTimestamp |-> cacheTimestamp]

\* PostsService.updateCache: the two fields after it, t being Date.now()
updateCache(posts, t) == [postsCache |-> posts, cacheTimestamp |-> t]

\* isCacheValid() that still accepts an entry of age CACHE_DURATION
isCacheValidInclusive(t) ==
    postsCache # NullPosts /\ t - cacheTimestamp <= CACHE_DURATION

\* PostsService.isCacheValid, t being Date.now()
isCacheValid(t) ==
    postsCache # NullPosts /\ t - cacheTimestamp < CACHE_DURATION

\* createPost/updatePost that never clears the cache
cacheAfterWriteNeverCleared(ok) ==
    [postsCache |-> postsCache, cacheTimestamp |-> cacheTimestamp]

\* createPost/updatePost that clears the cache before looking at the outcome
cacheAfterWriteAlwaysCleared(ok) == clearCache

\* createPost / updatePost after `await this.post/put`: clearCache() runs
\* when the await returned, and is skipped when it threw
cacheAfterWrite(ok) ==
    IF ok THEN clearCache
    ELSE [postsCache |-> postsCache, cacheTimestamp |-> cacheTimestamp]

\* the state of a PostsService right after construction, nobody calling
CacheStart ==
    /\ now = StartTime
    /\ ticks = 0
    /\ postsCache = NullPosts
    /\ cacheTimestamp = 0
    /\ serverData = 0
    /\ cpc = [p \in Callers |-> "idle"]
    /\ cresp = [p \in Callers |-> NoResp]
    /\ cret = NoRet
    /\ fillTime = NoTime
    /\ fillData = NullPosts
    /\ invalidatedBy = "none"

----------------------------------------------------------------------------
(* ApiClient: the registry of named services *)

\* the names the application registers (API_HANDLING.md)
Names == {"posts", "users"}
\* getService's `null`, and "no entry" of the services map
NoInstance == 0
Instances == 1..MaxInstances

NoRegRet == [op |-> "none", name |-> "", inst |-> NoInstance, built |-> FALSE]

hasServiceInstancesOnly(n) == services[n] # NoInstance

\* ApiClient.hasService
hasService(n) == services[n] # NoInstance \/ serviceFactories[n]

\* ApiClient.getRegisteredServices
getRegisteredServices ==
    {n \in Names : services[n] # NoInstance} \cup {n \in Names : serviceFactories[n]}

\* getService() that returns the new instance without this.services.set
servicesAfterCreateNotStored(n, inst) == services

\* getService(): this.services.set(name, service) after factory.create
servicesAfterCreate(n, inst) == [services EXCEPT ![n] = inst]

\* reset() that clears nothing
servicesAfterResetKept == services

\* ApiClient.reset: this.services.clear()
servicesAfterReset == [n \in Names |-> NoInstance]

\* getHealthStatus() whose catch block rethrows
caughtProbeErrorRethrown == [propagates |-> TRUE, status |-> "absent"]

\* getHealthStatus(), catch block: the entry written for a thrown error
caughtProbeError == [propagates |-> FALSE, status |-> "unhealthy"]

\* the entries a health probe or isReady() can produce
ProbeResults == {"healthy", "unhealthy", "throws"}

\* the registry right after construction
RegistryStart ==
    /\ services = [n \in Names |-> NoInstance]
    /\ serviceFactories = [n \in Names |-> FALSE]
    /\ nextId = 0
    /\ regRet = NoRegRet
    /\ lastGot = [n \in Names |-> NoInstance]
    /\ lastKept = [n \in Names |-> NoInstance]
    /\ builtSinceReset = [n \in Names |-> 0]
    /\ builtSinceDrop = [n \in Names |-> 0]
    /\ resetMark = 0
    /\ hpc = "idle"
    /\ hcur = ""
    /\ hthrew = {}
    /\ hsnap = {}
    /\ htodo = {}
    /\ hstatus = [n \in Names |-> "absent"]

----------------------------------------------------------------------------
(* ApiClient: merging a service configuration with the global one *)

CfgValues == {Unset} \cup (0..MaxCfgValue)

\* one default header: absent, or one of two values
HeaderValues == {Unset} \cup (1..2)

\* the settings mergeWithGlobalConfig combines; header is one default header
Configs == [timeout : CfgValues, retries : CfgValues, retryDelay : CfgValues,
            header : HeaderValues]

EmptyConfig == [timeout |-> Unset, retries |-> Unset, retryDelay |-> Unset,
                header |-> Unset]

\* ApiClient.mergeWithGlobalConfig
mergeWithGlobalConfig(config, global) ==
    [timeout |-> OrElse(config.timeout, OrElse(global.timeout, DefaultTimeout)),
     header |-> IF config.header # Unset THEN config.header ELSE global.header,
     retries |-> OrElse(config.retries, OrElse(global.retries, DefaultRetries)),
     retryDelay |-> OrElse(config.retryDelay,
                           OrElse(global.retryDelay, DefaultRetryDelay))]

ConfigStart ==
    /\ globalConfig = EmptyConfig
    /\ svcConfig = EmptyConfig
    /\ mergedConfig = EmptyConfig

\* baseUrl of a builder: never set, set to "", set to a URL
EmptyUrl == 0
SomeUrl == 1
BaseUrlValues == {Unset, EmptyUrl, SomeUrl}

\* the fields a ServiceConfigBuilder collects (authStrategy apart)
BuilderConfigs == [baseUrl : BaseUrlValues, timeout : CfgValues,
                   retries : CfgValues, retryDelay : CfgValues,
                   header : HeaderValues]

NewBuilderConfig == [baseUrl |-> Unset, timeout |-> Unset, retries |-> Unset,
                     retryDelay |-> Unset, header |-> Unset]

NoBuild == [kind |-> "none", config |-> NewBuilderConfig]

\* ServiceConfigBuilder.build
build(config) ==
    IF Falsy(config.baseUrl)
    THEN [kind |-> "threw", config |-> NewBuilderConfig]
    ELSE [kind |-> "built",
          config |-> [baseUrl |-> config.baseUrl,
                      timeout |-> OrElse(config.timeout, DefaultTimeout),
                      header |-> config.header,
                      retries |-> OrElse(config.retries, DefaultRetries),
                      retryDelay |-> OrElse(config.retryDelay, DefaultRetryDelay)]]

BuilderStart ==
    /\ builderConfig = NewBuilderConfig
    /\ builderRet = NoBuild

\* the callers of applyAuth / isValid: two, so that calls can overlap
AuthCallers == {"first", "second"}

AuthKinds == {"bearer", "apiKeyHeader", "apiKeyQuery", "basic", "custom"}

\* no credential: token null or "", apiKey "", username and password "",
\* headers {}
NoCred == 0
Creds == 0..MaxToken

\* a header or query parameter of a request config
Absent == [scheme |-> "absent", value |-> 0]
Plain(v) == [scheme |-> "plain", value |-> v]
\* `Bearer ${token}`
Bearer(t) == [scheme |-> "Bearer", value |-> t]
\* `Basic ${btoa(`${username}:${password}`)}`
Basic(c) == [scheme |-> "Basic", value |-> c]

\* a request config: the Authorization header, the header and the query
\* parameter a key goes to, another header, and method, URL and body
NoRequest == [authorization |-> Absent, keyHeader |-> Absent,
              keyQuery |-> Absent, other |-> Absent, rest |-> 0]

\* the configs callers come with: another header is there, an Authorization
\* header may be
Requests == [authorization : {Absent, Plain(1)}, keyHeader : {Absent},
             keyQuery : {Absent}, other : {Plain(1)}, rest : {1}]

applyBearerWithoutSpread(q, token) ==
    IF token # NoCred
    THEN [NoRequest EXCEPT !.authorization = Bearer(token), !.rest = q.rest]
    ELSE q

\* BearerTokenStrategy.applyAuth, past `await this.getToken()`
applyBearer(q, token) ==
    IF token # NoCred
    THEN [q EXCEPT !.authorization = Bearer(token)]
    ELSE q

\* applyAuth of the strategy classes, with credential c in hand
applyAuthTo(kind, q, c) ==
    CASE kind = "bearer" -> applyBearer(q, c)
      [] kind = "apiKeyHeader" -> [q EXCEPT !.keyHeader = Plain(c)]
      [] kind = "apiKeyQuery" -> [q EXCEPT !.keyQuery = Plain(c)]
      [] kind = "basic" -> [q EXCEPT !.authorization = Basic(c)]
      [] kind = "custom" -> IF c # NoCred
                            THEN [q EXCEPT !.keyHeader = Plain(c)]
                            ELSE q

\* isValid of the strategy classes, with credential c in hand
isValidWith(c) == IF c # NoCred THEN "valid" ELSE "invalid"

\* getToken() has to await the tokenGetter
getTokenAwaits == authKind = "bearer" /\ cred = NoCred /\ hasGetter

AuthStart ==
    /\ authKind = "bearer"
    /\ cred = NoCred
    /\ hasGetter = FALSE
    /\ apc = [c \in AuthCallers |-> "idle"]
    /\ ain = [c \in AuthCallers |-> NoRequest]
    /\ areq = [c \in AuthCallers |-> NoRequest]
    /\ aret = [c \in AuthCallers |-> "none"]
    /\ rfpc = "idle"
    /\ yielded = 0
    /\ cleared = FALSE

\* the logical calls in progress on one instance: two, so that they overlap
RequestCalls == {"one", "other"}

NoHealth == [status |-> "none", auth |-> "none"]

\* what authStrategy.isValid() does when getHealth() awaits it
AuthValidity == {"valid", "invalid", "throws"}

getHealthIgnoringAuth(auth, flag) ==
    [status |-> IF flag THEN "healthy" ELSE "unhealthy", auth |-> auth]

\* BaseApiFactory.getHealth, past `await this.authStrategy.isValid()`
getHealth(auth, flag) ==
    IF auth = "throws" THEN [status |-> "unhealthy", auth |-> auth]
    ELSE IF auth = "invalid" THEN [status |-> "unhealthy", auth |-> auth]
    ELSE [status |-> IF flag THEN "healthy" ELSE "unhealthy", auth |-> auth]

healthFlagSetOnlyOnFailure(succeeded) == isHealthy /\ succeeded

\* this.isHealthy after an attempt: true (line 191), false (handleError)
healthFlagAfter(succeeded) == succeeded

attemptAfterBackoffShared(k) == [j \in RequestCalls |-> kattempt[j] + 1]

\* request(): attempt++ of call k's own loop counter
attemptAfterBackoff(k) == [kattempt EXCEPT ![k] = @ + 1]

ConcStart ==
    /\ kpc = [k \in RequestCalls |-> "idle"]
    /\ kretries = [k \in RequestCalls |-> 0]
    /\ kattempt = [k \in RequestCalls |-> 0]
    /\ ksent = [k \in RequestCalls |-> 0]
    /\ kinflight = [k \in RequestCalls |-> 0]
    /\ kwaited = [k \in RequestCalls |-> 0]
    /\ lastCompleted = "none"
    /\ gpc = "idle"
    /\ gret = NoHealth

\* strategy objects a caller may hand over
Strategies == 1..MaxStrategies
\* the NoAuthStrategy the constructor makes when the config names none
NoAuth == 0
\* config.authStrategy left out
NoStrategyGiven == -1
\* no update call has carried a strategy / nothing applied or reported yet
NoneYet == -2

\* constructor: this.authStrategy = config.authStrategy || new NoAuthStrategy()
constructedWith(given) == IF given = NoStrategyGiven THEN NoAuth ELSE given

\* updateConfig: { ...this.config, ...newConfig }, the authStrategy key
configAfterUpdate(given) ==
    IF given = NoStrategyGiven THEN configAuthStrategy ELSE given

StratStart ==
    /\ authStrategy = NoAuth
    /\ configAuthStrategy = NoStrategyGiven
    /\ installed = NoneYet
    /\ appliedBy = NoneYet
    /\ reported = NoneYet
    /\ stratOp = "constructor"

\* the remote answers, fails, or answers with something else than post 1
RemoteStates == {"up", "down", "garbled"}

ProbeStart ==
    /\ remote = "up"
    /\ changes = 0
    /\ pauth = "valid"
    /\ ppc = "idle"
    /\ pret = "none"

PostIds == 1..MaxPostId

\* the postIds arrays a caller may pass (an id may occur twice)
BatchRequests == UNION {[1..n -> PostIds] : n \in 0..MaxBatch}

\* response.errors was not set
NoErrors == <<0>>

NoBatchResponse ==
    [success |-> FALSE, processedCount |-> -1, failedCount |-> -1,
     data |-> <<>>, errors |-> NoErrors]

batchResponseWithErrorsAlways(results, errors) ==
    [success |-> Len(errors) = 0,
     processedCount |-> Len(results),
     failedCount |-> Len(errors),
     data |-> results,
     errors |-> errors]

\* batchFetchPosts: the response built after the loop
batchResponse(results, errors) ==
    [success |-> Len(errors) = 0,
     processedCount |-> Len(results),
     failedCount |-> Len(errors),
     data |-> results,
     errors |-> IF Len(errors) > 0 THEN errors ELSE NoErrors]

BatchStart ==
    /\ bids = <<>>
    /\ bresults = <<>>
    /\ berrors = <<>>
    /\ boks = <<>>
    /\ bfetched = <<>>
    /\ bpc = "idle"
    /\ bret = NoBatchResponse

UserIds == 1..MaxUserId

\* the error request() throws when its last attempt had this outcome: the
\* response interceptor's handleError, then the catch block's
thrownFor(outcome, data) == handleError(handleError(AxiosError(outcome, data)))

\* the failure came with free text: response.data.message of an error
\* response, or the message of the error the token callback threw
carriesText(outcome) == outcome \in ErrorStatuses \cup {AuthThrows}

\* error.message.includes("404"): the message is
\* `[svc] HTTP ${status}: ${response.data.message || error.message}`,
\* wrapped in `[svc] Request Error: ...`
messageIncludes404(error, text404) == error.msgStatus = 404 \/ text404

\* UsersService.userExists, the catch block
userExistsCaught(error, text404) ==
    IF messageIncludes404(error, text404) THEN "false" ELSE "rethrown"

UserStart ==
    /\ uid = 1
    /\ uoutcome = Success
    /\ utext404 = FALSE
    /\ uerr = NoError
    /\ upc = "idle"
    /\ uret = "none"

LateStart == StratStart /\ ProbeStart /\ BatchStart /\ UserStart

ExtraStart == BuilderStart /\ AuthStart /\ ConcStart /\ LateStart

Init ==
    /\ CacheStart
    /\ RegistryStart
    /\ ConfigStart
    /\ ExtraStart
    /\ cfgRetries \in RetriesValues
    /\ cfgRetryDelay \in RetryDelayValues
    /\ isHealthy = TRUE
    /\ pc = "idle"
    /\ callRetries = Unset
    /\ retries = 0
    /\ attempt = 0
    /\ lastOutcome = Success
    /\ lastData = NoPayload
    /\ seen = {}
    /\ requests = 0
    /\ calls = 0
    /\ delays = <<>>
    /\ intercepted = NoError
    /\ lastError = NoError
    /\ result = NoPayload

\* get/post/put/patch/delete -> request(): entry, up to the loop head
StartCall ==
    /\ pc \in {"idle", "returned", "thrown"}
    /\ \E r \in RetriesValues :
         /\ callRetries' = r
         /\ retries' = EffectiveRetries(r, cfgRetries)
    /\ attempt' = 0
    /\ pc' = "attempt"
    /\ lastOutcome' = Success
    /\ lastData' = NoPayload
    /\ seen' = {}
    /\ requests' = 0
    /\ calls' = 0
    /\ delays' = <<>>
    /\ intercepted' = NoError
    /\ lastError' = NoError
    /\ result' = NoPayload
    /\ UNCHANGED <<cfgRetries, cfgRetryDelay, isHealthy>>
    /\ UNCHANGED nonPipeVars

\* one iteration of the loop whose attempt succeeds
AttemptSucceeds ==
    /\ pc = "attempt"
    /\ attempt <= retries
    /\ \E data \in Payloads :
         /\ lastData' = data
         /\ result' = data
    /\ lastOutcome' = Success
    /\ seen' = seen \cup {OutcomeClass(Success)}
    /\ requests' = requests + 1
    /\ calls' = calls + 1
    /\ isHealthy' = TRUE
    /\ pc' = "returned"
    /\ UNCHANGED <<cfgRetries, cfgRetryDelay, callRetries, retries, attempt,
                   delays, intercepted, lastError>>
    /\ UNCHANGED nonPipeVars

\* one iteration of the loop whose attempt fails: the interceptor classifies
\* the transport's error and rejects with the classified error; the catch
\* block classifies what it caught and decides between backoff and throw
AttemptFails ==
    /\ pc = "attempt"
    /\ attempt <= retries
    /\ \E outcome \in FailureOutcomes, data \in Payloads :
         LET rejected == handleError(AxiosError(outcome, data))
             caught == rejected
         IN /\ outcome \notin ErrorStatuses => data = NoPayload
            /\ lastOutcome' = outcome
            /\ lastData' = data
            /\ seen' = seen \cup {OutcomeClass(outcome)}
            /\ requests' = requests + 1
            /\ calls' = IF outcome = AuthThrows THEN calls ELSE calls + 1
            /\ intercepted' = rejected
            /\ lastError' = handleError(caught)
            /\ IF attempt < retries /\ shouldRetry(caught)
               THEN /\ delays' = Append(delays, BackoffDelay(cfgRetryDelay, attempt))
                    /\ pc' = "waiting"
               ELSE /\ delays' = delays
                    /\ pc' = "thrown"
    /\ isHealthy' = FALSE
    /\ UNCHANGED <<cfgRetries, cfgRetryDelay, callRetries, retries, attempt,
                   result>>
    /\ UNCHANGED nonPipeVars

BackoffElapsedKeepsAttempt ==
    /\ pc = "waiting"
    /\ attempt' = attempt
    /\ pc' = "attempt"
    /\ UNCHANGED <<cfgRetries, cfgRetryDelay, isHealthy, callRetries, retries,
                   lastOutcome, lastData, seen, requests, calls, delays,
                   intercepted, lastError, result>>
    /\ UNCHANGED nonPipeVars

\* the backoff timer fires: continue, attempt++
BackoffElapsed ==
    /\ pc = "waiting"
    /\ attempt' = attempt + 1
    /\ pc' = "attempt"
    /\ UNCHANGED <<cfgRetries, cfgRetryDelay, isHealthy, callRetries, retries,
                   lastOutcome, lastData, seen, requests, calls, delays,
                   intercepted, lastError, result>>
    /\ UNCHANGED nonPipeVars

Next ==
    \/ StartCall
    \/ AttemptSucceeds
    \/ AttemptFails
    \/ BackoffElapsed

Spec == Init /\ [][Next]_vars

\* the same, with what the runtime guarantees: the transport settles every
\* attempt (axios is given a timeout that is never 0, line 172), and the
\* timer of delay() fires
SpecLive ==
    /\ Spec
    /\ WF_vars(AttemptSucceeds \/ AttemptFails)
    /\ WF_vars(BackoffElapsed)

TypeOK ==
    /\ cfgRetries \in RetriesValues
    /\ cfgRetryDelay \in RetryDelayValues
    /\ isHealthy \in BOOLEAN
    /\ pc \in {"idle", "attempt", "waiting", "returned", "thrown"}
    /\ retries \in 0..(MaxRetries + DefaultRetries)
    /\ attempt \in 0..retries
    /\ lastOutcome \in Outcomes
    /\ calls <= requests
    /\ requests <= retries + 1
    /\ Len(delays) <= retries

----------------------------------------------------------------------------
(* PostsService operations.  A call runs without interruption up to its     *)
(* `await`; the request settles; the rest of the call runs when the caller  *)
(* is resumed.  Other callers' steps may fall in between.                   *)

\* the pipeline of a PostsService that is not followed attempt by attempt
PipelineAtRest ==
    /\ cfgRetries = Unset
    /\ cfgRetryDelay = Unset
    /\ pc = "idle"
    /\ callRetries = Unset
    /\ retries = 0
    /\ attempt = 0
    /\ lastOutcome = Success
    /\ lastData = NoPayload
    /\ seen = {}
    /\ requests = 0
    /\ calls = 0
    /\ delays = <<>>
    /\ intercepted = NoError
    /\ lastError = NoError
    /\ result = NoPayload

InitCache ==
    /\ CacheStart
    /\ RegistryStart
    /\ ConfigStart
    /\ ExtraStart
    /\ PipelineAtRest
    /\ isHealthy = TRUE

\* time passes
Tick ==
    /\ ticks < MaxTicks
    /\ now' = now + TickStep
    /\ ticks' = ticks + 1
    /\ UNCHANGED <<postsCache, cacheTimestamp, serverData, cpc, cresp,
                   cret, fillTime, fillData, invalidatedBy, isHealthy>>
    /\ UNCHANGED nonCacheVars

getAllPostsIgnoringUseCache(p, useCache) ==
    /\ cpc[p] = "idle"
    /\ cresp' = [cresp EXCEPT ![p] = NoResp]
    /\ IF isCacheValid(now)
       THEN /\ cret' = [kind |-> "cached", data |-> postsCache]
            /\ cpc' = cpc
       ELSE /\ cret' = cret
            /\ cpc' = [cpc EXCEPT ![p] = "awaitGet"]
    /\ UNCHANGED <<now, ticks, postsCache, cacheTimestamp, serverData,
                   fillTime, fillData, invalidatedBy, isHealthy>>
    /\ UNCHANGED nonCacheVars

\* getAllPosts(useCache): up to `return this.postsCache` or `await this.get`
getAllPosts(p, useCache) ==
    /\ cpc[p] = "idle"
    /\ cresp' = [cresp EXCEPT ![p] = NoResp]
    /\ IF useCache /\ isCacheValid(now)
       THEN /\ cret' = [kind |-> "cached", data |-> postsCache]
            /\ cpc' = cpc
       ELSE /\ cret' = cret
            /\ cpc' = [cpc EXCEPT ![p] = "awaitGet"]
    /\ UNCHANGED <<now, ticks, postsCache, cacheTimestamp, serverData,
                   fillTime, fillData, invalidatedBy, isHealthy>>
    /\ UNCHANGED nonCacheVars

\* this.get settles: with the server's collection, or with an error
getSettles(p) ==
    /\ cpc[p] = "awaitGet"
    /\ \E ok \in BOOLEAN :
         /\ cresp' = [cresp EXCEPT ![p] =
                        [ok |-> ok, data |-> IF ok THEN serverData ELSE NullPosts]]
         /\ isHealthy' = ok
    /\ cpc' = [cpc EXCEPT ![p] = "gotGet"]
    /\ UNCHANGED <<now, ticks, postsCache, cacheTimestamp, serverData,
                   cret, fillTime, fillData, invalidatedBy>>
    /\ UNCHANGED nonCacheVars

getAllPostsResumesClearingOnError(p) ==
    /\ cpc[p] = "gotGet"
    /\ cpc' = [cpc EXCEPT ![p] = "idle"]
    /\ IF cresp[p].ok
       THEN LET c == updateCache(cresp[p].data, now)
            IN /\ postsCache' = c.postsCache
               /\ cacheTimestamp' = c.cacheTimestamp
               /\ fillTime' = now
               /\ fillData' = cresp[p].data
               /\ invalidatedBy' = "none"
               /\ cret' = [kind |-> "fetched", data |-> cresp[p].data]
       ELSE /\ cret' = [kind |-> "getThrew", data |-> NullPosts]
            /\ postsCache' = clearCache.postsCache
            /\ cacheTimestamp' = clearCache.cacheTimestamp
            /\ fillTime' = NoTime
            /\ fillData' = NullPosts
            /\ invalidatedBy' = "clear"
    /\ UNCHANGED <<now, ticks, serverData, cresp, isHealthy>>
    /\ UNCHANGED nonCacheVars

\* getAllPosts after the await: updateCache(posts); return posts -- or throw
getAllPostsResumes(p) ==
    /\ cpc[p] = "gotGet"
    /\ cpc' = [cpc EXCEPT ![p] = "idle"]
    /\ IF cresp[p].ok
       THEN LET c == updateCache(cresp[p].data, now)
            IN /\ postsCache' = c.postsCache
               /\ cacheTimestamp' = c.cacheTimestamp
               /\ fillTime' = now
               /\ fillData' = cresp[p].data
               /\ invalidatedBy' = "none"
               /\ cret' = [kind |-> "fetched", data |-> cresp[p].data]
       ELSE /\ cret' = [kind |-> "getThrew", data |-> NullPosts]
            /\ UNCHANGED <<postsCache, cacheTimestamp, fillTime, fillData,
                           invalidatedBy>>
    /\ UNCHANGED <<now, ticks, serverData, cresp, isHealthy>>
    /\ UNCHANGED nonCacheVars

\* createPost(data): up to `await this.post`
createPost(p) ==
    /\ cpc[p] = "idle"
    /\ cresp' = [cresp EXCEPT ![p] = NoResp]
    /\ cpc' = [cpc EXCEPT ![p] = "awaitWrite"]
    /\ UNCHANGED <<now, ticks, postsCache, cacheTimestamp, serverData, cret,
                   fillTime, fillData, invalidatedBy, isHealthy>>
    /\ UNCHANGED nonCacheVars

\* updatePost(id, data): up to `await this.put`
updatePost(p) ==
    /\ cpc[p] = "idle"
    /\ cresp' = [cresp EXCEPT ![p] = NoResp]
    /\ cpc' = [cpc EXCEPT ![p] = "awaitWrite"]
    /\ UNCHANGED <<now, ticks, postsCache, cacheTimestamp, serverData, cret,
                   fillTime, fillData, invalidatedBy, isHealthy>>
    /\ UNCHANGED nonCacheVars

\* this.post / this.put settles: the server applied the write, or an error
writeSettles(p) ==
    /\ cpc[p] = "awaitWrite"
    /\ \E ok \in BOOLEAN :
         /\ ok => serverData < MaxVersion
         /\ serverData' = IF ok THEN serverData + 1 ELSE serverData
         /\ cresp' = [cresp EXCEPT ![p] =
                        [ok |-> ok, data |-> IF ok THEN serverData + 1 ELSE NullPosts]]
         /\ isHealthy' = ok
    /\ cpc' = [cpc EXCEPT ![p] = "gotWrite"]
    /\ UNCHANGED <<now, ticks, postsCache, cacheTimestamp, cret,
                   fillTime, fillData, invalidatedBy>>
    /\ UNCHANGED nonCacheVars

\* createPost / updatePost after the await: clearCache(); return -- or throw
writeResumes(p) ==
    /\ cpc[p] = "gotWrite"
    /\ cpc' = [cpc EXCEPT ![p] = "idle"]
    /\ LET c == cacheAfterWrite(cresp[p].ok)
       IN /\ postsCache' = c.postsCache
          /\ cacheTimestamp' = c.cacheTimestamp
    /\ IF cresp[p].ok
       THEN /\ invalidatedBy' = "write"
            /\ fillTime' = NoTime
            /\ fillData' = NullPosts
            /\ cret' = [kind |-> "written", data |-> NullPosts]
       ELSE /\ UNCHANGED <<invalidatedBy, fillTime, fillData>>
            /\ cret' = [kind |-> "writeThrew", data |-> NullPosts]
    /\ UNCHANGED <<now, ticks, serverData, cresp, isHealthy>>
    /\ UNCHANGED nonCacheVars

\* clearCache() called from outside
ClearCacheCall ==
    /\ postsCache' = clearCache.postsCache
    /\ cacheTimestamp' = clearCache.cacheTimestamp
    /\ invalidatedBy' = "clear"
    /\ fillTime' = NoTime
    /\ fillData' = NullPosts
    /\ UNCHANGED <<now, ticks, serverData, cpc, cresp, cret, isHealthy>>
    /\ UNCHANGED nonCacheVars

NextCache ==
    \/ Tick
    \/ ClearCacheCall
    \/ \E p \in Callers :
         \/ \E useCache \in BOOLEAN : getAllPosts(p, useCache)
         \/ getSettles(p)
         \/ getAllPostsResumes(p)
         \/ createPost(p)
         \/ updatePost(p)
         \/ writeSettles(p)
         \/ writeResumes(p)

SpecCache == InitCache /\ [][NextCache]_vars

TypeOKCache ==
    /\ now \in StartTime..(StartTime + MaxTicks * CACHE_DURATION)
    /\ ticks \in 0..MaxTicks
    /\ postsCache \in {NullPosts} \cup (0..MaxVersion)
    /\ serverData \in 0..MaxVersion
    /\ cpc \in [Callers -> {"idle", "awaitGet", "gotGet", "awaitWrite", "gotWrite"}]
    /\ invalidatedBy \in {"none", "write", "clear"}

----------------------------------------------------------------------------
(* ApiClient operations.  All of them are synchronous but getHealthStatus,  *)
(* which is suspended while it awaits a service's health probe.             *)

InitRegistry ==
    /\ RegistryStart
    /\ CacheStart
    /\ ConfigStart
    /\ ExtraStart
    /\ PipelineAtRest
    /\ isHealthy = TRUE

getServiceBuildsIgnoringCache(n) == serviceFactories[n]

\* getService(name) goes to the factory: no cached instance, a factory is there
getServiceBuilds(n) == services[n] = NoInstance /\ serviceFactories[n]

\* getService(name): the value it returns when the factory does not throw
getServiceValue(n) ==
    IF getServiceBuilds(n) THEN nextId + 1
    ELSE services[n]

\* getService(name): its effect on the registry; ok = factory.create returned
getServiceEffect(n, ok) ==
    /\ ~ok => getServiceBuilds(n)
    /\ IF ok /\ getServiceBuilds(n)
       THEN /\ nextId < MaxInstances
            /\ nextId' = nextId + 1
            /\ services' = servicesAfterCreate(n, nextId + 1)
            /\ builtSinceReset' = [builtSinceReset EXCEPT ![n] = @ + 1]
            /\ builtSinceDrop' = [builtSinceDrop EXCEPT ![n] = @ + 1]
       ELSE UNCHANGED <<nextId, services, builtSinceReset, builtSinceDrop>>
    /\ IF ok /\ getServiceValue(n) # NoInstance
       THEN /\ lastGot' = [lastGot EXCEPT ![n] = getServiceValue(n)]
            /\ lastKept' = [lastKept EXCEPT ![n] = getServiceValue(n)]
       ELSE UNCHANGED <<lastGot, lastKept>>

\* what a registry call that went through getService(name) reports
getServiceReturn(op, n, ok) ==
    IF ok
    THEN [op |-> op, name |-> n, inst |-> getServiceValue(n),
          built |-> getServiceBuilds(n)]
    ELSE [op |-> op, name |-> n, inst |-> NoInstance, built |-> FALSE]

registerServiceFactory(n) ==
    /\ serviceFactories' = [serviceFactories EXCEPT ![n] = TRUE]
    /\ regRet' = NoRegRet
    /\ UNCHANGED <<services, nextId, lastGot, lastKept, builtSinceReset,
                   builtSinceDrop, resetMark, hpc, hcur, hthrew, hsnap, htodo,
                   hstatus>>
    /\ UNCHANGED nonRegVars

\* registerService(name, service), the service constructed by the caller
registerService(n) ==
    /\ nextId < MaxInstances
    /\ nextId' = nextId + 1
    /\ services' = [services EXCEPT ![n] = nextId + 1]
    /\ lastKept' = [lastKept EXCEPT ![n] = NoInstance]
    /\ regRet' = NoRegRet
    /\ UNCHANGED <<serviceFactories, lastGot, builtSinceReset, builtSinceDrop,
                   resetMark, hpc, hcur, hthrew, hsnap, htodo, hstatus>>
    /\ UNCHANGED nonRegVars

getService(n) ==
    /\ \E ok \in BOOLEAN :
         /\ getServiceEffect(n, ok)
         /\ regRet' = getServiceReturn(IF ok THEN "getService" ELSE "getServiceThrew",
                                       n, ok)
    /\ UNCHANGED <<serviceFactories, resetMark, hpc, hcur, hthrew, hsnap,
                   htodo, hstatus>>
    /\ UNCHANGED nonRegVars

getServiceWithConfigKept(n) ==
    /\ IF ~serviceFactories[n]
       THEN /\ regRet' = [op |-> "getServiceWithConfig", name |-> n,
                          inst |-> NoInstance, built |-> FALSE]
            /\ nextId' = nextId
            /\ services' = services
       ELSE \E ok \in BOOLEAN :
              IF ok
              THEN /\ nextId < MaxInstances
                   /\ nextId' = nextId + 1
                   /\ services' = [services EXCEPT ![n] = nextId + 1]
                   /\ regRet' = [op |-> "getServiceWithConfig", name |-> n,
                                 inst |-> nextId + 1, built |-> TRUE]
              ELSE /\ nextId' = nextId
                   /\ services' = services
                   /\ regRet' = [op |-> "getServiceWithConfigThrew", name |-> n,
                                 inst |-> NoInstance, built |-> FALSE]
    /\ UNCHANGED <<serviceFactories, lastGot, lastKept,
                   builtSinceReset, builtSinceDrop, resetMark, hpc, hcur, hthrew,
                   hsnap, htodo, hstatus>>
    /\ UNCHANGED nonRegVars

\* getServiceWithConfig(name, config): a new instance, not kept
getServiceWithConfig(n) ==
    /\ IF ~serviceFactories[n]
       THEN /\ regRet' = [op |-> "getServiceWithConfig", name |-> n,
                          inst |-> NoInstance, built |-> FALSE]
            /\ nextId' = nextId
       ELSE \E ok \in BOOLEAN :
              IF ok
              THEN /\ nextId < MaxInstances
                   /\ nextId' = nextId + 1
                   /\ regRet' = [op |-> "getServiceWithConfig", name |-> n,
                                 inst |-> nextId + 1, built |-> TRUE]
              ELSE /\ nextId' = nextId
                   /\ regRet' = [op |-> "getServiceWithConfigThrew", name |-> n,
                                 inst |-> NoInstance, built |-> FALSE]
    /\ UNCHANGED <<services, serviceFactories, lastGot, lastKept,
                   builtSinceReset, builtSinceDrop, resetMark, hpc, hcur, hthrew,
                   hsnap, htodo, hstatus>>
    /\ UNCHANGED nonRegVars

\* updateServiceAuth(name, s) / updateServiceConfig(name, c): getService(name),
\* then the instance's own update
updateService(n) ==
    /\ \E ok \in BOOLEAN :
         /\ getServiceEffect(n, ok)
         /\ regRet' = getServiceReturn(IF ok THEN "updateService"
                                             ELSE "updateServiceThrew", n, ok)
    /\ UNCHANGED <<serviceFactories, resetMark, hpc, hcur, hthrew, hsnap,
                   htodo, hstatus>>
    /\ UNCHANGED nonRegVars

reset ==
    /\ services' = servicesAfterReset
    /\ resetMark' = nextId
    /\ lastGot' = [n \in Names |-> NoInstance]
    /\ lastKept' = [n \in Names |-> NoInstance]
    /\ builtSinceReset' = [n \in Names |-> 0]
    /\ builtSinceDrop' = [n \in Names |-> 0]
    /\ regRet' = NoRegRet
    /\ UNCHANGED <<serviceFactories, nextId, hpc, hcur, hthrew, hsnap, htodo,
                   hstatus>>
    /\ UNCHANGED nonRegVars

removeService(n) ==
    /\ services' = [services EXCEPT ![n] = NoInstance]
    /\ lastKept' = [lastKept EXCEPT ![n] = NoInstance]
    /\ builtSinceDrop' = [builtSinceDrop EXCEPT ![n] = 0]
    /\ regRet' = NoRegRet
    /\ UNCHANGED <<serviceFactories, nextId, lastGot, builtSinceReset,
                   resetMark, hpc, hcur, hthrew, hsnap, htodo, hstatus>>
    /\ UNCHANGED nonRegVars

\* the loop of getHealthStatus() writes the entry of name n
healthEntry(n, entry) ==
    /\ hstatus' = [hstatus EXCEPT ![n] = entry]
    /\ htodo' = htodo \ {n}
    /\ hpc' = "loop"
    /\ hcur' = ""

\* an error thrown inside the loop's try block reaches its catch block
healthCaught(n) ==
    IF caughtProbeError.propagates
    THEN /\ hpc' = "threw"
         /\ hcur' = ""
         /\ hthrew' = hthrew \cup {n}
         /\ UNCHANGED <<hstatus, htodo>>
    ELSE /\ healthEntry(n, caughtProbeError.status)
         /\ hthrew' = hthrew \cup {n}

\* getHealthStatus(): entry, the names to visit are taken once
getHealthStatusStarts ==
    /\ hpc \in {"idle", "threw"}
    /\ hpc' = "loop"
    /\ hcur' = ""
    /\ hthrew' = {}
    /\ hsnap' = getRegisteredServices
    /\ htodo' = getRegisteredServices
    /\ hstatus' = [n \in Names |-> "absent"]
    /\ UNCHANGED <<services, serviceFactories, nextId, regRet, lastGot,
                   lastKept, builtSinceReset, builtSinceDrop, resetMark>>
    /\ UNCHANGED nonRegVars

\* one iteration up to `await service.getHealth()`, or to its end when the
\* service has no getHealth (isReady() decides) or getService threw
healthVisits(n) ==
    /\ hpc = "loop"
    /\ n \in htodo
    /\ \E ok \in BOOLEAN :
         /\ getServiceEffect(n, ok)
         /\ regRet' = getServiceReturn(IF ok THEN "getService" ELSE "getServiceThrew",
                                       n, ok)
         /\ IF ~ok
            THEN healthCaught(n)
            ELSE IF getServiceValue(n) = NoInstance
            THEN healthEntry(n, "unhealthy") /\ UNCHANGED hthrew
            ELSE \/ /\ hpc' = "await"
                    /\ hcur' = n
                    /\ UNCHANGED <<hstatus, htodo, hthrew>>
                 \/ \E ready \in ProbeResults :
                      IF ready = "throws"
                      THEN healthCaught(n)
                      ELSE healthEntry(n, ready) /\ UNCHANGED hthrew
    /\ UNCHANGED <<serviceFactories, resetMark, hsnap>>
    /\ UNCHANGED nonRegVars

\* service.getHealth() settles
healthProbeSettles ==
    /\ hpc = "await"
    /\ \E probe \in ProbeResults :
         IF probe = "throws"
         THEN healthCaught(hcur)
         ELSE healthEntry(hcur, probe) /\ UNCHANGED hthrew
    /\ UNCHANGED <<services, serviceFactories, nextId, regRet, lastGot,
                   lastKept, builtSinceReset, builtSinceDrop, resetMark, hsnap>>
    /\ UNCHANGED nonRegVars

\* the loop is over: return healthStatus, the call's locals are gone
getHealthStatusReturns ==
    /\ hpc = "loop"
    /\ htodo = {}
    /\ hpc' = "idle"
    /\ hsnap' = {}
    /\ hthrew' = {}
    /\ hstatus' = [n \in Names |-> "absent"]
    /\ UNCHANGED <<services, serviceFactories, nextId, regRet, lastGot,
                   lastKept, builtSinceReset, builtSinceDrop, resetMark, hcur,
                   htodo>>
    /\ UNCHANGED nonRegVars

\* the synchronous registry operations, in any order
NextRegistry ==
    \/ reset
    \/ \E n \in Names :
         \/ registerServiceFactory(n)
         \/ registerService(n)
         \/ getService(n)
         \/ getServiceWithConfig(n)
         \/ updateService(n)
         \/ removeService(n)

SpecRegistry == InitRegistry /\ [][NextRegistry]_vars

\* getHealthStatus(), with the operations that change the registry running
\* while it is suspended; its visits are the getService calls
NextHealth ==
    \/ reset
    \/ getHealthStatusStarts
    \/ healthProbeSettles
    \/ getHealthStatusReturns
    \/ \E n \in Names :
         \/ registerServiceFactory(n)
         \/ registerService(n)
         \/ removeService(n)
         \/ healthVisits(n)

SpecHealth == InitRegistry /\ [][NextHealth]_vars

TypeOKRegistry ==
    /\ services \in [Names -> Instances \cup {NoInstance}]
    /\ serviceFactories \in [Names -> BOOLEAN]
    /\ nextId \in 0..MaxInstances
    /\ resetMark \in 0..nextId
    /\ hpc \in {"idle", "loop", "await", "threw"}
    /\ htodo \subseteq hsnap
    /\ hstatus \in [Names -> {"absent", "healthy", "unhealthy"}]

----------------------------------------------------------------------------
(* ApiClient.getServiceWithConfig: the configuration the factory receives *)

InitConfig ==
    /\ ConfigStart
    /\ ExtraStart
    /\ RegistryStart
    /\ CacheStart
    /\ PipelineAtRest
    /\ isHealthy = TRUE

\* setGlobalConfig(config); what an earlier merge produced is not looked at again
setGlobalConfig(config) ==
    /\ globalConfig' = config
    /\ svcConfig' = EmptyConfig
    /\ mergedConfig' = EmptyConfig
    /\ UNCHANGED nonConfVars

\* getServiceWithConfig(name, config): mergedConfig = mergeWithGlobalConfig(config)
mergeForService(config) ==
    /\ svcConfig' = config
    /\ mergedConfig' = mergeWithGlobalConfig(config, globalConfig)
    /\ UNCHANGED globalConfig
    /\ UNCHANGED nonConfVars

NextConfig ==
    \E config \in Configs :
        \/ setGlobalConfig(config)
        \/ mergeForService(config)

SpecConfig == InitConfig /\ [][NextConfig]_vars

----------------------------------------------------------------------------
(* ServiceConfigBuilder: setters in any order, then build() *)

InitBuilder ==
    /\ BuilderStart
    /\ AuthStart
    /\ ConcStart
    /\ LateStart
    /\ ConfigStart
    /\ RegistryStart
    /\ CacheStart
    /\ PipelineAtRest
    /\ isHealthy = TRUE

\* setBaseUrl / setTimeout / setHeaders / setRetries / setRetryDelay
setField(f, v) ==
    /\ builderConfig' = [builderConfig EXCEPT ![f] = v]
    /\ UNCHANGED builderRet
    /\ UNCHANGED nonBuilderVars

setBaseUrl == \E v \in BaseUrlValues \ {Unset} : setField("baseUrl", v)
setTimeout == \E v \in CfgValues \ {Unset} : setField("timeout", v)
setHeaders == \E v \in HeaderValues \ {Unset} : setField("header", v)
setRetries == \E v \in CfgValues \ {Unset} : setField("retries", v)
setRetryDelay == \E v \in CfgValues \ {Unset} : setField("retryDelay", v)

buildCall ==
    /\ builderRet' = build(builderConfig)
    /\ UNCHANGED builderConfig
    /\ UNCHANGED nonBuilderVars

NextBuilder ==
    \/ setBaseUrl
    \/ setTimeout
    \/ setHeaders
    \/ setRetries
    \/ setRetryDelay
    \/ buildCall

SpecBuilder == InitBuilder /\ [][NextBuilder]_vars

----------------------------------------------------------------------------
(* One authentication strategy.  applyAuth and isValid run without          *)
(* interruption unless getToken() has to await the tokenGetter; callers     *)
(* overlap there.                                                           *)

\* the strategy as constructed: any class, with or without a credential;
\* only BearerTokenStrategy takes a tokenGetter
InitAuth ==
    /\ authKind \in AuthKinds
    /\ cred \in Creds
    /\ hasGetter \in BOOLEAN
    /\ hasGetter => authKind = "bearer"
    /\ apc = [c \in AuthCallers |-> "idle"]
    /\ ain = [c \in AuthCallers |-> NoRequest]
    /\ areq = [c \in AuthCallers |-> NoRequest]
    /\ aret = [c \in AuthCallers |-> "none"]
    /\ rfpc = "idle"
    /\ yielded = 0
    /\ cleared = FALSE
    /\ BuilderStart
    /\ ConcStart
    /\ LateStart
    /\ ConfigStart
    /\ RegistryStart
    /\ CacheStart
    /\ PipelineAtRest
    /\ isHealthy = TRUE

\* applyAuth(config): a new config, or the one the caller got back last time
applyAuth(c) ==
    /\ apc[c] \in {"idle", "done"}
    /\ \E q \in Requests \cup ({areq[c]} \ {NoRequest}) :
         /\ ain' = [ain EXCEPT ![c] = q]
         /\ IF getTokenAwaits
            THEN /\ apc' = [apc EXCEPT ![c] = "applyAuthAwaits"]
                 /\ areq' = [areq EXCEPT ![c] = q]
                 /\ aret' = [aret EXCEPT ![c] = "none"]
            ELSE /\ apc' = [apc EXCEPT ![c] = "done"]
                 /\ areq' = [areq EXCEPT ![c] = applyAuthTo(authKind, q, cred)]
                 /\ aret' = [aret EXCEPT ![c] = "returned"]
    /\ UNCHANGED <<authKind, cred, hasGetter, rfpc, yielded>>
    /\ cleared' = cleared
    /\ UNCHANGED nonAuthVars

isValid(c) ==
    /\ apc[c] \in {"idle", "done"}
    /\ IF getTokenAwaits
       THEN /\ apc' = [apc EXCEPT ![c] = "isValidAwaits"]
            /\ aret' = [aret EXCEPT ![c] = "none"]
       ELSE /\ apc' = [apc EXCEPT ![c] = "done"]
            /\ aret' = [aret EXCEPT ![c] = isValidWith(cred)]
    /\ UNCHANGED <<authKind, cred, hasGetter, ain, areq, rfpc, yielded>>
    /\ cleared' = cleared
    /\ UNCHANGED nonAuthVars

\* getToken(): `this.token = await this.tokenGetter()` resumes with a token,
\* and the caller goes on with it
getTokenResumes(c) ==
    /\ apc[c] \in {"applyAuthAwaits", "isValidAwaits"}
    /\ \E token \in Creds :
         /\ token # NoCred => yielded < MaxYielded
         /\ cred' = token
         /\ yielded' = IF token # NoCred THEN yielded + 1 ELSE yielded
         /\ IF apc[c] = "applyAuthAwaits"
            THEN /\ areq' = [areq EXCEPT ![c] = applyBearer(areq[c], token)]
                 /\ aret' = [aret EXCEPT ![c] = "returned"]
            ELSE /\ areq' = areq
                 /\ aret' = [aret EXCEPT ![c] = isValidWith(token)]
    /\ apc' = [apc EXCEPT ![c] = "done"]
    /\ UNCHANGED <<authKind, hasGetter, ain, rfpc>>
    /\ cleared' = cleared
    /\ UNCHANGED nonAuthVars

\* the tokenGetter rejects: getToken, and applyAuth / isValid with it, throw
getTokenThrows(c) ==
    /\ apc[c] \in {"applyAuthAwaits", "isValidAwaits"}
    /\ apc' = [apc EXCEPT ![c] = "done"]
    /\ aret' = [aret EXCEPT ![c] = "threw"]
    /\ UNCHANGED <<authKind, cred, hasGetter, ain, areq, rfpc, yielded>>
    /\ cleared' = cleared
    /\ UNCHANGED nonAuthVars

\* refresh(): up to `await this.tokenGetter()`
refresh ==
    /\ authKind = "bearer"
    /\ rfpc = "idle"
    /\ rfpc' = IF hasGetter THEN "awaits" ELSE "idle"
    /\ yielded' = 0
    /\ UNCHANGED <<authKind, cred, hasGetter, apc, ain, areq, aret>>
    /\ cleared' = FALSE
    /\ UNCHANGED nonAuthVars

\* refresh(): this.token = the token the tokenGetter resolved to (or it threw)
refreshResumes ==
    /\ rfpc = "awaits"
    /\ rfpc' = "idle"
    /\ \/ \E token \in Creds : cred' = token
       \/ cred' = cred
    /\ yielded' = 0
    /\ UNCHANGED <<authKind, hasGetter, apc, ain, areq, aret>>
    /\ cleared' = cleared
    /\ UNCHANGED nonAuthVars

clear ==
    /\ cred' = NoCred
    /\ yielded' = 0
    /\ UNCHANGED <<authKind, hasGetter, apc, ain, areq, aret, rfpc>>
    /\ cleared' = TRUE
    /\ UNCHANGED nonAuthVars

\* setToken / setApiKey / setCredentials / setHeaders
setCredential ==
    /\ \E c \in Creds \ {NoCred} : cred' = c
    /\ UNCHANGED <<authKind, hasGetter, apc, ain, areq, aret, rfpc, yielded>>
    /\ cleared' = FALSE
    /\ UNCHANGED nonAuthVars

NextAuth ==
    \/ refresh
    \/ refreshResumes
    \/ clear
    \/ setCredential
    \/ \E c \in AuthCallers :
         \/ applyAuth(c)
         \/ isValid(c)
         \/ getTokenResumes(c)
         \/ getTokenThrows(c)

SpecAuth == InitAuth /\ [][NextAuth]_vars

TypeOKAuth ==
    /\ authKind \in AuthKinds
    /\ cred \in Creds
    /\ hasGetter \in BOOLEAN
    /\ apc \in [AuthCallers -> {"idle", "applyAuthAwaits", "isValidAwaits", "done"}]
    /\ aret \in [AuthCallers -> {"none", "returned", "threw", "valid", "invalid"}]
    /\ rfpc \in {"idle", "awaits"}
    /\ cleared \in BOOLEAN

----------------------------------------------------------------------------
(* Logical calls that overlap on one service instance.  Each runs its own   *)
(* request(): the loop counter and `retries` are locals; this.isHealthy is  *)
(* the instance's.  getHealth() is suspended while isValid() is pending.    *)

InitCalls ==
    /\ cfgRetries \in RetriesValues
    /\ cfgRetryDelay = Unset
    /\ isHealthy = TRUE
    /\ pc = "idle"
    /\ callRetries = Unset
    /\ retries = 0
    /\ attempt = 0
    /\ lastOutcome = Success
    /\ lastData = NoPayload
    /\ seen = {}
    /\ requests = 0
    /\ calls = 0
    /\ delays = <<>>
    /\ intercepted = NoError
    /\ lastError = NoError
    /\ result = NoPayload
    /\ ConcStart
    /\ LateStart
    /\ BuilderStart
    /\ AuthStart
    /\ ConfigStart
    /\ RegistryStart
    /\ CacheStart

\* request(): entry, and the first iteration up to `await axiosInstance.request`
requestStarts(k) ==
    /\ kpc[k] \in {"idle", "returned", "thrown"}
    /\ \E r \in RetriesValues :
         kretries' = [kretries EXCEPT ![k] = EffectiveRetries(r, cfgRetries)]
    /\ kattempt' = [kattempt EXCEPT ![k] = 0]
    /\ ksent' = [ksent EXCEPT ![k] = 1]
    /\ kinflight' = [kinflight EXCEPT ![k] = 1]
    /\ kwaited' = [kwaited EXCEPT ![k] = 0]
    /\ kpc' = [kpc EXCEPT ![k] = "inflight"]
    /\ UNCHANGED <<isHealthy, lastCompleted, gpc, gret>>
    /\ UNCHANGED nonConcVars

\* the attempt in flight succeeds: isHealthy = true; return response.data
attemptReturns(k) ==
    /\ kpc[k] = "inflight"
    /\ kinflight' = [kinflight EXCEPT ![k] = @ - 1]
    /\ isHealthy' = healthFlagAfter(TRUE)
    /\ lastCompleted' = "success"
    /\ kpc' = [kpc EXCEPT ![k] = "returned"]
    /\ UNCHANGED <<kretries, kattempt, ksent, kwaited, gpc, gret>>
    /\ UNCHANGED nonConcVars

\* the attempt in flight fails: handleError, then backoff or throw
attemptThrows(k) ==
    /\ kpc[k] = "inflight"
    /\ kinflight' = [kinflight EXCEPT ![k] = @ - 1]
    /\ isHealthy' = healthFlagAfter(FALSE)
    /\ lastCompleted' = "failure"
    /\ \E outcome \in FailureOutcomes :
         LET caught == handleError(AxiosError(outcome, NoPayload))
         IN kpc' = [kpc EXCEPT ![k] =
                      IF kattempt[k] < kretries[k] /\ shouldRetry(caught)
                      THEN "waiting" ELSE "thrown"]
    /\ UNCHANGED <<kretries, kattempt, ksent, kwaited, gpc, gret>>
    /\ UNCHANGED nonConcVars

\* delay() resolves: continue; attempt++; the next iteration up to its await
backoffElapses(k) ==
    /\ kpc[k] = "waiting"
    /\ kattempt' = attemptAfterBackoff(k)
    /\ kwaited' = [kwaited EXCEPT ![k] = @ + 1]
    /\ ksent' = [ksent EXCEPT ![k] = @ + 1]
    /\ kinflight' = [kinflight EXCEPT ![k] = @ + 1]
    /\ kpc' = [kpc EXCEPT ![k] = "inflight"]
    /\ UNCHANGED <<kretries, isHealthy, lastCompleted, gpc, gret>>
    /\ UNCHANGED nonConcVars

\* getHealth(): up to `await this.authStrategy.isValid()`
getHealthStarts ==
    /\ gpc = "idle"
    /\ gpc' = "awaitsIsValid"
    /\ UNCHANGED <<kpc, kretries, kattempt, ksent, kinflight, kwaited,
                   isHealthy, lastCompleted, gret>>
    /\ UNCHANGED nonConcVars

\* getHealth(): isValid() has settled; the flag is read now
getHealthResumes ==
    /\ gpc = "awaitsIsValid"
    /\ gpc' = "idle"
    /\ \E auth \in AuthValidity : gret' = getHealth(auth, isHealthy)
    /\ UNCHANGED <<kpc, kretries, kattempt, ksent, kinflight, kwaited,
                   isHealthy, lastCompleted>>
    /\ UNCHANGED nonConcVars

NextCalls ==
    \/ getHealthStarts
    \/ getHealthResumes
    \/ \E k \in RequestCalls :
         \/ requestStarts(k)
         \/ attemptReturns(k)
         \/ attemptThrows(k)
         \/ backoffElapses(k)

SpecCalls == InitCalls /\ [][NextCalls]_vars

TypeOKCalls ==
    /\ kpc \in [RequestCalls -> {"idle", "inflight", "waiting", "returned", "thrown"}]
    /\ \A k \in RequestCalls :
          /\ kattempt[k] \in 0..kretries[k]
          /\ kretries[k] \in 0..(MaxRetries + DefaultRetries)
    /\ isHealthy \in BOOLEAN
    /\ gpc \in {"idle", "awaitsIsValid"}

----------------------------------------------------------------------------
(* One service instance: which authentication strategy it applies and which *)
(* one it reports.                                                          *)

InitStrategy ==
    /\ configAuthStrategy \in {NoStrategyGiven} \cup Strategies
    /\ authStrategy = constructedWith(configAuthStrategy)
    /\ installed = NoneYet
    /\ appliedBy = NoneYet
    /\ reported = NoneYet
    /\ stratOp = "constructor"
    /\ ProbeStart
    /\ BatchStart
    /\ UserStart
    /\ BuilderStart
    /\ AuthStart
    /\ ConcStart
    /\ ConfigStart
    /\ RegistryStart
    /\ CacheStart
    /\ PipelineAtRest
    /\ isHealthy = TRUE

\* BaseApiFactory.updateAuthStrategy(s)
updateAuthStrategy(s) ==
    /\ authStrategy' = s
    /\ installed' = s
    /\ stratOp' = "updateAuthStrategy"
    /\ UNCHANGED <<configAuthStrategy, appliedBy, reported>>
    /\ UNCHANGED nonStratVars

\* ApiClient.updateServiceAuth(name, s) for this instance's name
updateServiceAuth(s) ==
    /\ authStrategy' = s
    /\ installed' = s
    /\ stratOp' = "updateServiceAuth"
    /\ UNCHANGED <<configAuthStrategy, appliedBy, reported>>
    /\ UNCHANGED nonStratVars

\* BaseApiFactory.updateConfig(newConfig), newConfig.authStrategy being given
\* or left out; also reached through ApiClient.updateServiceConfig
updateConfig(given) ==
    /\ configAuthStrategy' = configAfterUpdate(given)
    /\ installed' = IF given = NoStrategyGiven THEN installed ELSE given
    /\ stratOp' = "updateConfig"
    /\ UNCHANGED <<authStrategy, appliedBy, reported>>
    /\ UNCHANGED nonStratVars

\* a request goes through the request interceptor
interceptRequest ==
    /\ appliedBy' = authStrategy
    /\ stratOp' = "request"
    /\ UNCHANGED <<authStrategy, configAuthStrategy, installed, reported>>
    /\ UNCHANGED nonStratVars

\* BaseApiFactory.getConfig().authStrategy
getConfig ==
    /\ reported' = configAuthStrategy
    /\ stratOp' = "getConfig"
    /\ UNCHANGED <<authStrategy, configAuthStrategy, installed, appliedBy>>
    /\ UNCHANGED nonStratVars

NextStrategy ==
    \/ \E s \in Strategies : updateAuthStrategy(s)
    \/ \E s \in Strategies : updateServiceAuth(s)
    \/ \E given \in {NoStrategyGiven} \cup Strategies : updateConfig(given)
    \/ interceptRequest
    \/ getConfig

SpecStrategy == InitStrategy /\ [][NextStrategy]_vars

TypeOKStrategy ==
    /\ authStrategy \in {NoAuth} \cup Strategies
    /\ configAuthStrategy \in {NoStrategyGiven} \cup Strategies
    /\ installed \in {NoneYet} \cup Strategies
    /\ appliedBy \in {NoneYet, NoAuth} \cup Strategies
    /\ reported \in {NoneYet, NoStrategyGiven} \cup Strategies

----------------------------------------------------------------------------
(* PostsService.getHealth (UsersService.getHealth is the same code): the    *)
(* base probe first, then a test request for post 1.                        *)

InitProbe ==
    /\ remote \in RemoteStates
    /\ changes = 0
    /\ pauth \in AuthValidity
    /\ ppc = "idle"
    /\ pret = "none"
    /\ isHealthy = TRUE
    /\ StratStart
    /\ BatchStart
    /\ UserStart
    /\ BuilderStart
    /\ AuthStart
    /\ ConcStart
    /\ ConfigStart
    /\ RegistryStart
    /\ CacheStart
    /\ PipelineAtRest

\* the remote service starts failing, recovers, ...
remoteChanges ==
    /\ changes < MaxRemoteChanges
    /\ changes' = changes + 1
    /\ \E r \in RemoteStates \ {remote} : remote' = r
    /\ UNCHANGED <<pauth, ppc, pret, isHealthy>>
    /\ UNCHANGED nonProbeVars

\* any other request on the instance runs to its end
otherRequest ==
    /\ isHealthy' = healthFlagAfter(remote # "down")
    /\ UNCHANGED <<remote, changes, pauth, ppc, pret>>
    /\ UNCHANGED nonProbeVars

\* PostsService.getHealth(): up to `await super.getHealth()`
postsGetHealthStarts ==
    /\ ppc = "idle"
    /\ ppc' = "awaitsParent"
    /\ pret' = "none"
    /\ UNCHANGED <<remote, changes, pauth, isHealthy>>
    /\ UNCHANGED nonProbeVars

\* PostsService.getHealth(): if (parentHealth.status === "unhealthy") return
probeSkipped(parentStatus) == parentStatus = "unhealthy"

\* super.getHealth() has settled: return its answer, or send the test request
parentHealthReturns ==
    /\ ppc = "awaitsParent"
    /\ LET parentHealth == getHealth(pauth, isHealthy)
       IN IF probeSkipped(parentHealth.status)
          THEN /\ pret' = parentHealth.status
               /\ ppc' = "idle"
          ELSE /\ pret' = pret
               /\ ppc' = "awaitsProbe"
    /\ UNCHANGED <<remote, changes, pauth, isHealthy>>
    /\ UNCHANGED nonProbeVars

\* getPostById(1, {timeout: 3000}) has settled: healthy if it is post 1,
\* unhealthy otherwise or when it threw
probeSettles ==
    /\ ppc = "awaitsProbe"
    /\ isHealthy' = healthFlagAfter(remote # "down")
    /\ pret' = IF remote = "up" THEN "healthy" ELSE "unhealthy"
    /\ ppc' = "idle"
    /\ UNCHANGED <<remote, changes, pauth>>
    /\ UNCHANGED nonProbeVars

NextProbe ==
    \/ remoteChanges
    \/ otherRequest
    \/ postsGetHealthStarts
    \/ parentHealthReturns
    \/ probeSettles

\* getHealth() is polled again and again and each of its awaits settles;
\* nothing obliges anybody to send another request
SpecProbe ==
    /\ InitProbe
    /\ [][NextProbe]_vars
    /\ WF_vars(postsGetHealthStarts)
    /\ WF_vars(parentHealthReturns)
    /\ WF_vars(probeSettles)

TypeOKProbe ==
    /\ remote \in RemoteStates
    /\ changes \in 0..MaxRemoteChanges
    /\ pauth \in AuthValidity
    /\ ppc \in {"idle", "awaitsParent", "awaitsProbe"}
    /\ pret \in {"none", "healthy", "unhealthy"}

----------------------------------------------------------------------------
(* PostsService.batchFetchPosts: one getPostById after the other, each in   *)
(* its own try/catch.                                                       *)

InitBatch ==
    /\ BatchStart
    /\ UserStart
    /\ StratStart
    /\ ProbeStart
    /\ BuilderStart
    /\ AuthStart
    /\ ConcStart
    /\ ConfigStart
    /\ RegistryStart
    /\ CacheStart
    /\ PipelineAtRest
    /\ isHealthy = TRUE

\* batchFetchPosts(request): up to the first `await this.getPostById`, or to
\* the return when postIds is empty
batchFetchPosts(ids) ==
    /\ bpc \in {"idle", "returned"}
    /\ bids' = ids
    /\ bresults' = <<>>
    /\ berrors' = <<>>
    /\ boks' = <<>>
    /\ IF Len(ids) = 0
       THEN /\ bfetched' = <<>>
            /\ bpc' = "returned"
            /\ bret' = batchResponse(<<>>, <<>>)
       ELSE /\ bfetched' = <<ids[1]>>
            /\ bpc' = "awaits"
            /\ bret' = NoBatchResponse
    /\ UNCHANGED isHealthy
    /\ UNCHANGED nonBatchVars

\* getPostById settles for the id in hand: push the post or the message, then
\* go on with the next id, or build the response and return
batchItemSettles ==
    /\ bpc = "awaits"
    /\ \E ok \in BOOLEAN :
         LET postId == bids[Len(boks) + 1]
             results == IF ok THEN Append(bresults, postId) ELSE bresults
             errors == IF ok THEN berrors ELSE Append(berrors, postId)
         IN /\ bresults' = results
            /\ berrors' = errors
            /\ boks' = Append(boks, ok)
            /\ isHealthy' = healthFlagAfter(ok)
            /\ IF Len(boks) + 1 < Len(bids)
               THEN /\ bfetched' = Append(bfetched, bids[Len(boks) + 2])
                    /\ bpc' = "awaits"
                    /\ bret' = bret
               ELSE /\ bfetched' = bfetched
                    /\ bpc' = "returned"
                    /\ bret' = batchResponse(results, errors)
    /\ UNCHANGED bids
    /\ UNCHANGED nonBatchVars

NextBatch ==
    \/ \E ids \in BatchRequests : batchFetchPosts(ids)
    \/ batchItemSettles

SpecBatch == InitBatch /\ [][NextBatch]_vars

TypeOKBatch ==
    /\ bids \in BatchRequests
    /\ bpc \in {"idle", "awaits", "returned"}
    /\ Len(boks) <= Len(bids)

----------------------------------------------------------------------------
(* UsersService.userExists: getById inside try, the catch block looks for   *)
(* "404" in the message of what it caught.                                  *)

InitUser ==
    /\ UserStart
    /\ BatchStart
    /\ StratStart
    /\ ProbeStart
    /\ BuilderStart
    /\ AuthStart
    /\ ConcStart
    /\ ConfigStart
    /\ RegistryStart
    /\ CacheStart
    /\ PipelineAtRest
    /\ isHealthy = TRUE

\* userExists(id): up to `await this.getById(id, config)`
userExists(id) ==
    /\ upc \in {"idle", "done"}
    /\ uid' = id
    /\ upc' = "awaits"
    /\ UNCHANGED <<uoutcome, utext404, uerr, uret, isHealthy>>
    /\ UNCHANGED nonUserVars

\* getById settles: return true, or the catch block decides
getByIdSettles ==
    /\ upc = "awaits"
    /\ \E outcome \in Outcomes, data \in Payloads, text404 \in BOOLEAN :
         /\ outcome \notin ErrorStatuses => data = NoPayload
         /\ text404 => carriesText(outcome)
         /\ uoutcome' = outcome
         /\ utext404' = text404
         /\ isHealthy' = healthFlagAfter(outcome = Success)
         /\ IF outcome = Success
            THEN /\ uerr' = NoError
                 /\ uret' = "true"
            ELSE /\ uerr' = thrownFor(outcome, data)
                 /\ uret' = userExistsCaught(thrownFor(outcome, data), text404)
    /\ upc' = "done"
    /\ UNCHANGED uid
    /\ UNCHANGED nonUserVars

NextUser ==
    \/ \E id \in UserIds : userExists(id)
    \/ getByIdSettles

SpecUser == InitUser /\ [][NextUser]_vars

TypeOKUser ==
    /\ uid \in UserIds
    /\ uoutcome \in Outcomes
    /\ utext404 \in BOOLEAN
    /\ upc \in {"idle", "awaits", "done"}
    /\ uret \in {"none", "true", "false", "rethrown"}

----------------------------------------------------------------------------
(* What the specification promises, stated independently of the code *)

\* spec 4.3: the variant named after a transport outcome
ExpectedVariant(outcome) ==
    CASE outcome = 400 -> "BadRequestError"
      [] outcome = 401 -> "UnauthorizedError"
      [] outcome = 403 -> "ForbiddenError"
      [] outcome = 404 -> "NotFoundError"
      [] outcome = 422 -> "ValidationError"
      [] outcome = 429 -> "RateLimitError"
      [] outcome = 500 -> "InternalServerError"
      [] outcome \in NoResponseOutcomes -> "NetworkError"
      [] outcome = AuthThrows -> "RequestError"
      [] OTHER -> "ApiError"

\* the retries value the call was configured with: the per-call override,
\* else the service's, else the documented default; 0 is a value
ConfiguredRetries ==
    IF callRetries # Unset THEN callRetries
    ELSE IF cfgRetries # Unset THEN cfgRetries
    ELSE DefaultRetries

\* the retryDelay the service was configured with, else the documented default
ConfiguredRetryDelay ==
    IF cfgRetryDelay # Unset THEN cfgRetryDelay ELSE DefaultRetryDelay

\* the call has thrown to its caller
Thrown == pc = "thrown"
\* the call has returned to its caller
Returned == pc = "returned"

\* C1: a failed response with status 400/401/403/404/422/429/500 is thrown
\* to the caller as the variant named after it, any other error status as
\* the generic ApiError carrying that status.
C1_ThrownVariantMatchesStatus ==
    (Thrown /\ lastOutcome \in ErrorStatuses) =>
        /\ lastError.name = ExpectedVariant(lastOutcome)
        /\ lastError.status = lastOutcome

\* C2: a 4xx response other than 429 never triggers a retry: no backoff is
\* entered after it, and a call that was answered with such statuses only
\* has made exactly one transport call when it throws.
C2_ClientErrorNeverRetried ==
    /\ pc = "waiting" => OutcomeClass(lastOutcome) # "clientError"
    /\ (Thrown /\ seen = {"clientError"}) => calls = 1

\* C3: when every attempt fails without a response (connection failure or
\* timeout), the call makes exactly retries+1 transport attempts and throws
\* the Network variant.
C3_NoResponseExhaustsBudgetThenNetwork ==
    (Thrown /\ seen = {"noResponse"}) =>
        /\ calls = ConfiguredRetries + 1
        /\ lastError.name = "NetworkError"

\* C4: a request-preparation failure (the token callback throws in
\* applyAuth) is not retried: the call throws a Request error at once, with
\* no backoff wait after it.
C4_PreparationFailureNotRetried ==
    (requests > 0 /\ lastOutcome = AuthThrows) =>
        /\ Thrown
        /\ lastError.name = "RequestError"

\* C5: when every attempt answers 429 or a status >= 500, the call makes
\* exactly retries+1 transport calls before it throws.
C5_RetryableStatusUsesWholeBudget ==
    (Thrown /\ seen = {"retryableStatus"}) => calls = ConfiguredRetries + 1

\* C6: total attempts = retries + 1 for every configured retries >= 0
\* (retries = 0: exactly one attempt), for a call that keeps failing with
\* retryable outcomes.
C6_TotalAttemptsIsRetriesPlusOne ==
    (Thrown /\ seen # {} /\ seen \subseteq {"retryableStatus", "noResponse"}) =>
        requests = ConfiguredRetries + 1

\* C7: the backoff delay waited before attempt n (n >= 1) is exactly
\* retryDelay * 2^(n-1), for every configured retryDelay.
C7_BackoffIsExactlyExponential ==
    \A n \in 1..Len(delays) : delays[n] = ConfiguredRetryDelay * Pow2(n - 1)

\* C8: k retryable failures followed by a success, k <= retries: the call
\* returns the success payload after exactly k+1 transport calls, having
\* waited retryDelay, 2*retryDelay, ... between them.
C8_SucceedsAfterRetryableFailures ==
    (/\ Returned
     /\ seen \subseteq {"retryableStatus", "noResponse", "success"}
     /\ calls - 1 <= ConfiguredRetries) =>
        /\ result = lastData
        /\ requests = calls
        /\ delays = [i \in 1..(calls - 1) |-> ConfiguredRetryDelay * Pow2(i - 1)]

\* C9: when the failed response carried a payload, the error thrown to the
\* caller carries that payload and the numeric status.
C9_ThrownErrorCarriesPayload ==
    (Thrown /\ lastOutcome \in ErrorStatuses /\ lastData # NoPayload) =>
        /\ lastError.data = lastData
        /\ lastError.status = lastOutcome

\* C27: every logical request terminates: whatever the transport outcomes,
\* request() returns or throws after at most (effective retries + 1)
\* transport attempts and at most (effective retries) backoff waits.
C27_EveryRequestTerminates ==
    /\ [](pc # "idle" =>
            /\ retries = EffectiveRetries(callRetries, cfgRetries)
            /\ requests <= retries + 1
            /\ Len(delays) <= retries)
    /\ (pc \in {"attempt", "waiting"}) ~> (Returned \/ Thrown)

\* a call that used its whole budget has thrown: effective retries + 1
\* attempts, effective retries waits
C27_Witness ==
    /\ Thrown
    /\ requests = EffectiveRetries(callRetries, cfgRetries) + 1
    /\ Len(delays) = EffectiveRetries(callRetries, cfgRetries)
    /\ retries > 1

\* C29: a per-call retries override takes precedence over the service
\* configuration: a call made with config.retries = r makes at most r+1
\* transport attempts, for every r >= 0, whatever the service's retries.
C29_PerCallRetriesBoundAttempts ==
    callRetries # Unset => requests <= callRetries + 1

\* C10: handleError maps every transport outcome to the one variant of the
\* table: 400/401/403/404/422/429/500 to their named variants, any other
\* status to the generic ApiError with that status, no response to Network,
\* never sent to Request.
C10_ClassificationFollowsTable ==
    (requests > 0 /\ lastOutcome # Success) =>
        /\ intercepted.name = ExpectedVariant(lastOutcome)
        /\ lastOutcome \in ErrorStatuses =>
             /\ intercepted.status = lastOutcome
             /\ intercepted.data = lastData
        /\ lastOutcome \notin ErrorStatuses =>
             /\ intercepted.status = 0
             /\ intercepted.data = NoPayload

\* C10 witness: a 422 response has been classified as the Validation variant
C10_Witness ==
    /\ requests > 0
    /\ lastOutcome = 422
    /\ intercepted.name = "ValidationError"

----------------------------------------------------------------------------
(* PostsService cache: claims *)

\* no PostsService call is in flight
Quiet == \A q \in Callers : cpc[q] = "idle"

\* C11: without concurrent calls, a getAllPosts() made while the last
\* fetch is younger than CACHE_DURATION issues no transport call and returns
\* the cached set; one made once CACHE_DURATION has elapsed since that fetch
\* issues a transport call.
C11_CacheRoundTrip ==
    [][\A p \in Callers :
         (getAllPosts(p, TRUE) /\ Quiet /\ fillTime # NoTime) =>
             IF now - fillTime < CACHE_DURATION
             THEN /\ cpc'[p] = "idle"
                  /\ cret' = [kind |-> "cached", data |-> fillData]
             ELSE cpc'[p] = "awaitGet"]_vars

\* C11 witness: a call was served from the cache, and after the entry aged
\* past CACHE_DURATION another call is fetching
C11_Witness ==
    /\ cret.kind = "cached"
    /\ fillTime # NoTime
    /\ now - fillTime >= CACHE_DURATION
    /\ \E p \in Callers : cpc[p] = "awaitGet"

C14_ClearThenGetAllFetches ==
    [][/\ \A p \in Callers, useCache \in BOOLEAN :
            (getAllPosts(p, useCache) /\ invalidatedBy = "clear") =>
                cpc'[p] = "awaitGet"
       /\ (ClearCacheCall /\ invalidatedBy = "clear") =>
                UNCHANGED <<postsCache, cacheTimestamp>>]_vars

\* C14 witness: clearCache() was called and a getAllPosts() after it is
\* fetching
C14_Witness ==
    /\ invalidatedBy = "clear"
    /\ cret.kind = "cached"
    /\ \E p \in Callers : cpc[p] = "awaitGet"

\* C15: data and timestamp always belong together: the data is null exactly
\* when the timestamp is 0, and a populated cache holds the data and the
\* time of one and the same refresh.
C15_CachePairIsAtomic ==
    /\ (postsCache = NullPosts) <=> (cacheTimestamp = 0)
    /\ postsCache # NullPosts =>
         /\ postsCache = fillData
         /\ cacheTimestamp = fillTime
    /\ postsCache = NullPosts => fillTime = NoTime

\* C15 witness: the cache is populated while another call is in flight
C15_Witness ==
    /\ postsCache # NullPosts
    /\ cacheTimestamp > 0
    /\ \E p \in Callers : cpc[p] # "idle"

\* C30: getAllPosts(true) serves from the cache iff the cache is populated
\* and now - cacheTimestamp < CACHE_DURATION (at exactly CACHE_DURATION it
\* fetches); getAllPosts(false) always issues a transport call; a fetch that
\* succeeds replaces the cache and its timestamp.
C30_UseCacheDecidesServing ==
    [][\A p \in Callers :
         /\ getAllPosts(p, TRUE) =>
               IF postsCache # NullPosts /\ now - cacheTimestamp < CACHE_DURATION
               THEN /\ cpc'[p] = "idle"
                    /\ cret' = [kind |-> "cached", data |-> postsCache]
               ELSE cpc'[p] = "awaitGet"
         /\ getAllPosts(p, FALSE) => cpc'[p] = "awaitGet"
         /\ (cpc[p] = "gotGet" /\ cresp[p].ok /\ getAllPostsResumes(p)) =>
               /\ postsCache' = cresp[p].data
               /\ cacheTimestamp' = now
               /\ cret' = [kind |-> "fetched", data |-> cresp[p].data]]_vars

\* a call is fetching while the cache is populated and exactly
\* CACHE_DURATION old, after an earlier call was served from it
C30_Witness ==
    /\ postsCache # NullPosts
    /\ now - cacheTimestamp = CACHE_DURATION
    /\ cret.kind = "cached"
    /\ \E p \in Callers : cpc[p] = "awaitGet"

\* every write the server has applied has also returned to its caller, so
\* serverData is the collection as the last completed write left it
WritesCompleted ==
    \A q \in Callers : ~(cpc[q] = "gotWrite" /\ cresp[q].ok)

\* C31: once every successful createPost/updatePost has completed, a
\* getAllPosts(true) that is served from the cache returns the collection as
\* the last write left it, never data fetched before that write.
C31_NoPreWriteDataServed ==
    [][\A p \in Callers :
         (WritesCompleted /\ cpc[p] = "idle" /\ getAllPosts(p, TRUE)
            /\ cpc'[p] = "idle") =>
               cret'.data = serverData]_vars

\* C32: a getAllPosts whose fetch fails throws to its caller, and no step of
\* that call changes postsCache or cacheTimestamp: what the cache held, stale
\* or not, is still there and nothing is served from it in place of the error.
C32_FailedFetchLeavesCache ==
    [][\A p \in Callers :
         /\ (cpc[p] = "idle" /\ cpc'[p] = "awaitGet") =>
               UNCHANGED <<postsCache, cacheTimestamp>>
         /\ (cpc[p] = "awaitGet" /\ cpc'[p] = "gotGet") =>
               UNCHANGED <<postsCache, cacheTimestamp>>
         /\ (cpc[p] = "gotGet" /\ ~cresp[p].ok /\ cpc'[p] = "idle") =>
               /\ cret' = [kind |-> "getThrew", data |-> NullPosts]
               /\ UNCHANGED <<postsCache, cacheTimestamp>>]_vars

\* a fetch has thrown and the cache still holds an entry, too old to serve
C32_Witness ==
    /\ cret.kind = "getThrew"
    /\ postsCache # NullPosts
    /\ now - cacheTimestamp >= CACHE_DURATION
    /\ Quiet

----------------------------------------------------------------------------
(* Overlapping calls and the health flag (SpecCalls) *)

\* a step in which an attempt of call k settles
AttemptSettles(k) == kpc[k] = "inflight" /\ kpc'[k] # "inflight"

\* a step in which call k, already running, starts a further attempt
FurtherAttemptStarts(k) ==
    /\ kpc[k] \in {"inflight", "waiting"}
    /\ ksent'[k] = ksent[k] + 1

\* what the loop of call k has counted and done
CallProgress(k) ==
    <<kpc[k], kretries[k], kattempt[k], ksent[k], kinflight[k], kwaited[k]>>

\* C25: the health flag always equals the outcome of the attempt that settled
\* last on the instance (it is true before any attempt); a call that returns,
\* after failed attempts or not, leaves it true and a call that throws leaves
\* it false.
C25_FlagIsLastAttemptOutcome ==
    /\ [](isHealthy = (lastCompleted # "failure"))
    /\ [][\A k \in RequestCalls :
            AttemptSettles(k) =>
               /\ kpc'[k] = "returned" => isHealthy'
               /\ kpc'[k] \in {"waiting", "thrown"} => ~isHealthy']_vars

\* one call returned after two failed attempts and left the flag true although
\* the other call had thrown before
C25_Witness ==
    /\ kpc["one"] = "returned"
    /\ kattempt["one"] = 2
    /\ kpc["other"] = "thrown"
    /\ lastCompleted = "success"
    /\ isHealthy

\* C26: getHealth() returns unhealthy whenever isValid() is false, whatever the
\* flag, and healthy exactly when the flag is true if isValid() is true; it
\* returns (unhealthy) even when isValid() throws, and no step of it changes
\* the health flag.
C26_HealthFromAuthAndFlag ==
    [][gpc' # gpc =>
         /\ isHealthy' = isHealthy
         /\ gpc = "awaitsIsValid" =>
              /\ gret'.status \in {"healthy", "unhealthy"}
              /\ gret'.auth = "invalid" => gret'.status = "unhealthy"
              /\ gret'.auth = "valid" => (gret'.status = "healthy" <=> isHealthy)
              /\ gret'.auth = "throws" => gret'.status = "unhealthy"]_vars

\* the probe answered unhealthy for invalid auth while the flag was true
C26_Witness ==
    /\ gret = [status |-> "unhealthy", auth |-> "invalid"]
    /\ gpc = "idle"
    /\ isHealthy
    /\ lastCompleted = "success"

\* C28: a call has at most one attempt in flight, starts a further attempt
\* only from its backoff wait (so after the previous attempt failed and the
\* wait completed), counts exactly its own attempts, and a step of one call
\* leaves the other calls' counters and positions alone.
C28_AttemptsAreSequentialPerCall ==
    /\ [](\A k \in RequestCalls :
            /\ kinflight[k] <= 1
            /\ kinflight[k] = 1 <=> kpc[k] = "inflight"
            /\ kpc[k] # "idle" => ksent[k] = kattempt[k] + 1
            /\ kwaited[k] = kattempt[k]
            /\ kattempt[k] <= kretries[k])
    /\ [][\A k \in RequestCalls :
            /\ FurtherAttemptStarts(k) =>
                 /\ kpc[k] = "waiting"
                 /\ kinflight[k] = 0
                 /\ kwaited'[k] = kwaited[k] + 1
                 /\ kattempt'[k] = kattempt[k] + 1
            /\ kpc'[k] # kpc[k] =>
                 \A j \in RequestCalls \ {k} :
                    CallProgress(j)' = CallProgress(j)]_vars

\* two calls overlap at different points of their loops
C28_Witness ==
    /\ kpc["one"] = "inflight"
    /\ kattempt["one"] = 2
    /\ kpc["other"] = "waiting"
    /\ kattempt["other"] = 0

----------------------------------------------------------------------------
(* The service registry (SpecRegistry) *)

\* a step in which getService(n) ran, called directly or by
\* updateServiceAuth / updateServiceConfig
GetServiceRuns(n) ==
    /\ regRet'.name = n
    /\ getService(n) \/ updateService(n)

\* ... and returned
GetServiceReturns(n) ==
    /\ regRet'.op \in {"getService", "updateService"}
    /\ GetServiceRuns(n)

\* C16: getService(name) returns the same instance on repeated calls, with no
\* re-construction by the factory, until reset() is called, whatever other
\* registry operations run in between.
C16_SameInstanceUntilReset ==
    [][\A n \in Names :
          lastGot[n] # NoInstance /\ GetServiceReturns(n)
              => regRet'.inst = lastGot[n] /\ nextId' = nextId]_vars

\* C16 (amended): getService(name) returns the same instance on repeated
\* calls, with no re-construction by the factory, until that name's instance
\* is dropped or replaced: by reset(), removeService(name) or
\* registerService(name, other).
C16_SameInstanceUntilDropped ==
    [][\A n \in Names :
          lastKept[n] # NoInstance /\ GetServiceRuns(n)
              => /\ regRet'.op \in {"getService", "updateService"}
                 /\ regRet'.inst = lastKept[n]
                 /\ ~regRet'.built
                 /\ nextId' = nextId]_vars

\* a repeated getService(name) returned the instance the factory built earlier
C16_Witness ==
    /\ regRet.op = "getService"
    /\ ~regRet.built
    /\ regRet.inst # NoInstance
    /\ regRet.inst = lastKept[regRet.name]
    /\ builtSinceDrop[regRet.name] = 1

\* C17: however many callers request a name, its factory is invoked at most
\* once between resets: one instance per name, not one per caller.
C17_BuiltOncePerReset == \A n \in Names : builtSinceReset[n] <= 1

\* C17 (amended): however many callers request a name, its factory returns an
\* instance at most once between two drops of that name's instance (reset()
\* or removeService(name)); a factory call that throws stores nothing.
C17_BuiltOncePerDrop == \A n \in Names : builtSinceDrop[n] <= 1

\* after a first access that built the instance, and other names' traffic, a
\* later caller of the same name was handed that one instance
C17_Witness ==
    /\ regRet.op = "getService"
    /\ ~regRet.built
    /\ builtSinceReset[regRet.name] = 1
    /\ regRet.inst = services[regRet.name]
    /\ regRet.inst = lastGot[regRet.name]
    /\ \E m \in Names \ {regRet.name} : builtSinceReset[m] = 1

C20_HealthStatusNeverThrows ==
    [][/\ hpc' # "threw"
       /\ getHealthStatusReturns =>
             /\ \A n \in Names :
                   IF n \in hsnap
                   THEN hstatus[n] \in {"healthy", "unhealthy"}
                   ELSE hstatus[n] = "absent"
             /\ \A n \in hthrew : hstatus[n] = "unhealthy"]_vars

\* about to return: both names visited, one threw and is unhealthy, the other
\* is healthy
C20_Witness ==
    /\ hpc = "loop"
    /\ htodo = {}
    /\ hsnap = Names
    /\ hthrew # {}
    /\ \A n \in hthrew : hstatus[n] = "unhealthy"
    /\ \E n \in Names \ hthrew : hstatus[n] = "healthy"

\* C35: hasService(name) is true exactly for the names of
\* getRegisteredServices(); a getService(name) that returns gives an instance
\* exactly when hasService(name) is true; and once the instance of a name
\* without factory is dropped (removeService, reset) the name is reported by
\* neither view and getService(name) returns null.
C35_NameViewsAgree ==
    /\ [](\A n \in Names : hasService(n) <=> n \in getRegisteredServices)
    /\ [][\A n \in Names :
            /\ (regRet'.name = n /\ regRet'.op = "getService" /\ getService(n)) =>
                  (regRet'.inst # NoInstance <=> hasService(n))
            /\ (services[n] # NoInstance /\ services'[n] = NoInstance
                  /\ ~serviceFactories[n]) =>
                  /\ ~hasService(n)'
                  /\ n \notin getRegisteredServices'
                  /\ getServiceValue(n)' = NoInstance]_vars

\* an instance registered without factory was dropped and getService then
\* returned null for it, while the other name is still reported
C35_Witness ==
    \E n \in Names :
        /\ regRet = [op |-> "getService", name |-> n, inst |-> NoInstance,
                     built |-> FALSE]
        /\ ~serviceFactories[n]
        /\ nextId >= 2
        /\ getRegisteredServices = Names \ {n}

\* a step in which getServiceWithConfig(n) ran
GetServiceWithConfigRuns(n) ==
    /\ regRet'.name = n
    /\ regRet'.op \in {"getServiceWithConfig", "getServiceWithConfigThrew"}
    /\ getServiceWithConfig(n)

\* C36: getServiceWithConfig(name, config) changes neither the instance map
\* nor the factories; with a factory it returns an instance constructed by
\* this call, held by no entry of the map; without one it returns null and
\* constructs nothing; what getService(name) does next is as before.
C36_GetServiceWithConfigLeavesRegistry ==
    [][\A n \in Names :
          GetServiceWithConfigRuns(n) =>
             /\ UNCHANGED <<services, serviceFactories>>
             /\ getServiceBuilds(n)' = getServiceBuilds(n)
             /\ ~serviceFactories[n] =>
                   regRet'.inst = NoInstance /\ nextId' = nextId
             /\ (serviceFactories[n] /\ regRet'.op = "getServiceWithConfig") =>
                   /\ regRet'.inst > nextId
                   /\ \A k \in Names : services'[k] # regRet'.inst]_vars

\* getServiceWithConfig returned a second new instance for a name whose
\* cached instance is still the first one
C36_Witness ==
    \E n \in Names :
        /\ regRet.op = "getServiceWithConfig"
        /\ regRet.name = n
        /\ services[n] = 1
        /\ regRet.inst = 3

----------------------------------------------------------------------------
(* Merging a service's configuration with the global one (SpecConfig) *)

Settings == {"timeout", "retries", "retryDelay", "header"}

\* getServiceWithConfig has merged a configuration: timeout is always set then
Merged == mergedConfig.timeout # Unset

\* C19: in the merged configuration an explicitly supplied per-service value
\* (0 included) of timeout, retries, retryDelay or a default header always
\* appears, and the global value is used only when the per-service one is
\* absent.
C19_PerServiceSettingsWin ==
    Merged =>
        \A f \in Settings :
            /\ svcConfig[f] # Unset => mergedConfig[f] = svcConfig[f]
            /\ (mergedConfig[f] = globalConfig[f] /\ globalConfig[f] # Unset)
                  => svcConfig[f] \in {Unset, globalConfig[f]}

----------------------------------------------------------------------------
(* ServiceConfigBuilder (SpecBuilder) *)

BuilderSettings == {"timeout", "retries", "retryDelay"}

BuilderDefault(f) ==
    CASE f = "timeout" -> DefaultTimeout
      [] f = "retries" -> DefaultRetries
      [] f = "retryDelay" -> DefaultRetryDelay

\* C21: build() fails when baseUrl was never set or is empty; otherwise it
\* returns exactly the values that were set (an explicit 0 included) and the
\* defaults 10000 / 3 / 1000 only for fields left unset.
C21_BuildReturnsWhatWasSet ==
    [][buildCall =>
          IF builderConfig.baseUrl \in {Unset, EmptyUrl}
          THEN builderRet'.kind = "threw"
          ELSE /\ builderRet'.kind = "built"
               /\ builderRet'.config.baseUrl = builderConfig.baseUrl
               /\ builderRet'.config.header = builderConfig.header
               /\ \A f \in BuilderSettings :
                     builderRet'.config[f] =
                        IF builderConfig[f] = Unset THEN BuilderDefault(f)
                        ELSE builderConfig[f]]_vars

----------------------------------------------------------------------------
(* Authentication strategies (SpecAuth) *)

\* C22: BearerToken resolves its token lazily: with no token cached the
\* supplier is invoked once and its result cached; until refresh() or clear()
\* no later applyAuth / isValid invokes it again, also when several calls
\* overlap while the first resolution is pending.  So between two refresh() /
\* clear() the supplier yields at most one token to getToken().
C22_SupplierYieldsOneToken == yielded <= 1

\* a bearer applyAuth of caller c returns in this step
BearerApplied(c) ==
    /\ authKind = "bearer"
    /\ aret'[c] = "returned"
    /\ applyAuth(c) \/ (apc[c] = "applyAuthAwaits" /\ getTokenResumes(c))

RequestFieldsButAuthorization == {"keyHeader", "keyQuery", "other", "rest"}

\* C23: BearerToken applyAuth with a token in hand leaves exactly one
\* Authorization header, `Bearer <token>`, and every other header, the method,
\* the URL and the body as they were; applied to its own result it returns
\* that result.
C23_ApplyAuthIsIdempotentAugmentation ==
    [][\A c \in AuthCallers :
          BearerApplied(c) /\ cred' # NoCred
              => /\ areq'[c].authorization = Bearer(cred')
                 /\ \A f \in RequestFieldsButAuthorization :
                       areq'[c][f] = ain'[c][f]
                 /\ ain'[c].authorization = Bearer(cred') => areq'[c] = ain'[c]
                 /\ applyBearer(areq'[c], cred') = areq'[c]]_vars

\* a caller applied bearer auth to the request it got back from applyAuth:
\* the request is as after the first application, the other header is there
C23_Witness ==
    \E c \in AuthCallers :
        /\ authKind = "bearer"
        /\ cred # NoCred
        /\ apc[c] = "done"
        /\ aret[c] = "returned"
        /\ ain[c].authorization = Bearer(cred)
        /\ areq[c] = ain[c]
        /\ areq[c].other = Plain(1)

\* C24: for every strategy class, applyAuth on a strategy that holds no
\* credential does not throw and returns the request with nothing added.
C24_NoCredentialAddsNothing ==
    [][\A c \in AuthCallers :
          cred = NoCred /\ ~hasGetter /\ applyAuth(c)
              => aret'[c] = "returned" /\ areq'[c] = ain'[c]]_vars

\* a bearer isValid of caller c returns in this step
BearerValidated(c) ==
    /\ authKind = "bearer"
    /\ aret'[c] \in {"valid", "invalid"}
    /\ isValid(c) \/ (apc[c] = "isValidAwaits" /\ getTokenResumes(c))

\* C34: after clear() on a BearerToken strategy, and until refresh() or
\* setToken() is called, isValid() returns false and applyAuth returns the
\* request without an Authorization header of its own, with or without a
\* supplier.
C34_ClearedBearerHoldsNoCredential ==
    [][\A c \in AuthCallers :
          /\ (cleared /\ cleared' /\ BearerValidated(c)) => aret'[c] = "invalid"
          /\ (cleared /\ cleared' /\ BearerApplied(c)) =>
                areq'[c].authorization = ain'[c].authorization]_vars

----------------------------------------------------------------------------
(* The service's authentication strategy (SpecStrategy) *)

\* C33: once an update call has installed a strategy, a request is
\* authenticated with the strategy installed last and getConfig() reports it.
C33_LatestStrategyAppliedAndReported ==
    installed # NoneYet =>
        /\ stratOp = "request" => appliedBy = installed
        /\ stratOp = "getConfig" => reported = installed

----------------------------------------------------------------------------
(* Polling PostsService.getHealth (SpecProbe) *)

\* the health flag is false, auth is valid, and the remote service answers
\* and goes on answering
RemoteRecovered ==
    /\ ~isHealthy
    /\ pauth = "valid"
    /\ remote = "up"
    /\ changes = MaxRemoteChanges

\* C37: once the remote service answers again, a PostsService whose health
\* flag is false has some later getHealth() return healthy, getHealth()
\* being polled and no other request being needed.
C37_HealthRecoversByPolling == RemoteRecovered ~> (pret = "healthy")


----------------------------------------------------------------------------
(* PostsService.batchFetchPosts (SpecBatch) *)

\* the ids among the first n of ids whose fetch had outcome ok, in order
RECURSIVE IdsWithOutcome(_, _, _, _)
IdsWithOutcome(ids, oks, n, ok) ==
    IF n = 0 THEN <<>>
    ELSE IF oks[n] = ok
         THEN Append(IdsWithOutcome(ids, oks, n - 1, ok), ids[n])
         ELSE IdsWithOutcome(ids, oks, n - 1, ok)

\* C38: batchFetchPosts calls getPostById for the requested ids one at a
\* time, in order, each exactly once, and always returns: processedCount +
\* failedCount is the number of requested ids, success is true iff
\* failedCount = 0, data holds the fetched posts in request order, and errors
\* is set iff failedCount > 0.
C38_BatchAccountsForEveryId ==
    /\ Len(bfetched) = IF bpc = "awaits" THEN Len(boks) + 1 ELSE Len(boks)
    /\ bfetched = SubSeq(bids, 1, Len(bfetched))
    /\ bresults = IdsWithOutcome(bids, boks, Len(boks), TRUE)
    /\ bpc = "returned" =>
         /\ bfetched = bids
         /\ bret.processedCount + bret.failedCount = Len(bids)
         /\ bret.success <=> bret.failedCount = 0
         /\ bret.data = IdsWithOutcome(bids, boks, Len(bids), TRUE)
         /\ bret.errors # NoErrors <=> bret.failedCount > 0
         /\ bret.errors # NoErrors =>
               bret.errors = IdsWithOutcome(bids, boks, Len(bids), FALSE)

\* a batch of three ids, the second of them failing, has returned
C38_Witness ==
    /\ bpc = "returned"
    /\ Len(bids) = 3
    /\ boks = <<TRUE, FALSE, TRUE>>
    /\ bret.success = FALSE
    /\ bret.processedCount = 2
    /\ bret.failedCount = 1
    /\ bret.data = <<bids[1], bids[3]>>


----------------------------------------------------------------------------
(* UsersService.userExists (SpecUser) *)

\* C39: userExists(id) returns true iff fetching the user succeeded, false
\* iff the server answered 404, and rethrows for every other failure.
C39_FalseOnlyOn404 ==
    upc = "done" =>
        /\ uret = "true" <=> uoutcome = Success
        /\ uret = "false" <=> uoutcome = 404
        /\ uoutcome \notin {Success, 404} => uret = "rethrown"



====
